---- MODULE Spec2Model ----
(***************************************************************************)
(* Race runtime of etaque/rewind (server/src/multiplayer.rs): the race     *)
(* map behind its RwLock, the per-connection command handlers, the         *)
(* countdown inside start_race and the 1-second race-time task.            *)
(*                                                                         *)
(* Atomicity.  Every handler is cut at the points where it releases the    *)
(* lock on the race map: one action per critical section.  The lock on     *)
(* player_races is never held while another lock is awaited by a task that *)
(* does not already hold the race map (create_race and join_race take it   *)
(* last, inside the race-map write section; leave_race, start_race,        *)
(* broadcast_position and record_gate_crossing drop it before they ask for *)
(* the race map), and the entry of player p is read and written by p's own *)
(* connection only, which handles one message at a time; so a read of      *)
(* player_races is merged with the section that follows it, except in      *)
(* leave_race, which changes the map before it waits for the race map.     *)
(*                                                                         *)
(* Option<T> is a sequence of length 0 (None) or 1 (Some).  Times are      *)
(* milliseconds.  A player id is the id of the connection that owns it     *)
(* (generate_id is drawn once per connection).                             *)
(*                                                                         *)
(* The GRIB2 stream parser (server/src/grib_stream.rs) is a separate       *)
(* machine, followed in SpecParser: a byte is a number in 0..255, the      *)
(* stream is cut into chunks by the feed action, and the length field is   *)
(* read as from_be_bytes reads it, except that every value from 2^30 up is *)
(* the one number 2^30 (the code compares it with 1_000_000_000 and with   *)
(* the length of the buffer, nothing else).                                *)
(*                                                                         *)
(* The wind ingestion (server/src/grib_store.rs, ncar_source.rs,           *)
(* s3_multipart.rs, wind_reports.rs) is followed in SpecIngest: one import *)
(* after another over the same date range, each unit handled in turn, the  *)
(* archive and the object store answering as they please (a bounded number *)
(* of failures).  A unit is its target time; an object is its key; a       *)
(* multipart session is counted when it is opened, completed and aborted.  *)
(* report_exists and insert_wind_report are called by grib_store.rs but    *)
(* are not in wind_reports.rs: they follow the index contract of the       *)
(* specification (exists, upsert).                                         *)
(*                                                                         *)
(* Race.last_activity is followed in SpecSweep only: only the sweep of     *)
(* empty races reads it, and a race that a handler put in the map has a    *)
(* player until leave_race removes it, so elsewhere the sweep removes      *)
(* nothing.                                                                *)
(*                                                                         *)
(* What a section pushes on the players' outbound queues is the value of   *)
(* its ..._out operator in the state the section starts in: a function     *)
(* from player ids to the messages pushed on that player's queue, in       *)
(* order.  The queues themselves are followed in SpecQueue only, where the *)
(* broadcasts made under a read guard are cut into their sends: two tasks  *)
(* can hold read guards at once, and Race::broadcast is a plain loop.      *)
(***************************************************************************)
EXTENDS Integers, Sequences, FiniteSets, TLC

\* ------------------------------------------------------------------ bounds
NumConns == 2          \* connections that send commands
MaxRaces == 2          \* race ids that generate_race_id can return
MaxNow == 5000         \* the clock stops here (ms)
Quantum == 1000        \* granularity of the clock (ms)
MaxPath == 2           \* path_history is capped at this many samples
MaxGateIndex == 2      \* largest gate_index a client sends
MaxCasts == 4          \* broadcasts of the periodic tasks that are followed
MaxPieces == 3         \* messages and stretches of garbage in a byte stream
MaxUnits == 2          \* (day, hour) units of the imported date range
MaxRuns == 2           \* imports run one after the other
MaxChunks == 2         \* chunks of one HTTP body
MaxFaults == 5         \* failures of the archive and of the object store
MaxWriters == 2        \* writers of the wind report index
MaxUpserts == 4        \* upserts and add_report calls that are followed
MaxKeys == 3           \* objects the raster bucket lists under ncar/

\* --------------------------------------------------------------- constants
max_players == 10
SLEEP_MS == 1000
SAMPLE_MS == 100
COUNTDOWN_FROM == 3
EXPIRY_MINUTES == 1
MS_PER_MINUTE == 60000
HEADER_LEN == 16
MAX_MSG_LEN == 1000000000
MAX_RETRIES == 4

MS_PER_DAY == 24 * 60 * 60 * 1000

None == << >>
Some(v) == <<v>>
is_some(o) == o # None
unwrap(o) == o[1]
unwrap_or(o, d) == IF o = None THEN d ELSE o[1]

Conns == 1 .. NumConns
\* Connections that joined a lobby and then stay silent (InitFull only).
NumFillers == max_players - 2
Fillers == (NumConns + 1) .. (NumConns + NumFillers)
AllPids == Conns \cup Fillers
RaceIds == 1 .. MaxRaces

\* The course on offer: one gate before the finish line, and a time limit
\* that is reached after 2 s of wall clock.
Courses ==
  [ c0 |-> [key |-> "c0", start_time |-> 1000, gates |-> << <<10, 10>> >>,
            finish_line |-> <<20, 10>>,
            time_factor |-> 43200, max_days |-> 1] ]
CourseKeys == {"c0", "nope"}
Names == {"n"}
Lngs == {1, 2}
Lats == {1}
Headings == {90}
GateIndexes == 0 .. MaxGateIndex
CourseTimes == {100, 200}
\* How long ago (ms) the races of InitSweep last changed.
SweepAges == {0, 58000, 60000}

VARIABLES
  races,         \* RaceManager.races: race id -> Race
  player_races,  \* RaceManager.player_races: player id -> race id
  conn,          \* per connection: where its handler stands, and its locals
  tick,          \* the race time update task
  races_lock,    \* guards of the race map held or awaited across a suspension
  now,           \* wall clock
  net,           \* the outbound queues and sockets, where they are followed
  cleanup,       \* Race.last_activity per race id, and what the sweep did
  parser,        \* Grib2StreamParser.buffer, the stream it is fed, its results
  ingest,        \* the wind report index, the buckets, the import under way
  catalog        \* wind_reports and the manifest object under several writers

vars == <<races, player_races, conn, tick, races_lock, now>>
offstage == <<cleanup, parser, ingest, catalog>>
allvars == <<vars, net, offstage>>

\* ------------------------------------------------------------------ Course
max_finish_time(course) == course.start_time + (course.max_days * MS_PER_DAY)

race_time(course, elapsed_since_start) ==
  course.start_time + elapsed_since_start * course.time_factor

\* ---------------------------------------------------------------- messages
MsgError(m) == [type |-> "Error", message |-> m]
MsgRaceCreated(r, p) == [type |-> "RaceCreated", race_id |-> r, player_id |-> p]
MsgRaceJoined(r, p, key, players, is_creator) ==
  [type |-> "RaceJoined", race_id |-> r, player_id |-> p, course_key |-> key,
   players |-> players, is_creator |-> is_creator]
MsgPlayerJoined(p, n) == [type |-> "PlayerJoined", player_id |-> p, player_name |-> n]
MsgPlayerLeft(p) == [type |-> "PlayerLeft", player_id |-> p]
MsgRaceCountdown(s) == [type |-> "RaceCountdown", seconds |-> s]
MsgPositionUpdate(p, lng, lat, h) ==
  [type |-> "PositionUpdate", player_id |-> p, lng |-> lng, lat |-> lat, heading |-> h]
MsgSyncRaceTime(t) == [type |-> "SyncRaceTime", race_time |-> t]
MsgRaceEnded(reason) == [type |-> "RaceEnded", reason |-> reason]
MsgLeaderboard(entries) == [type |-> "Leaderboard", entries |-> entries]

NoOutput == [p \in AllPids |-> << >>]
Reply(p, m) == [q \in AllPids |-> IF q = p THEN <<m>> ELSE << >>]
Then(o1, o2) == [p \in AllPids |-> o1[p] \o o2[p]]

\* -------------------------------------------------------------------- Race
\* saved is a history field: the save_race_result tasks spawned for this
\* Player, each with the arguments it was spawned with.
NewPlayer(id, name) ==
  [id |-> id, name |-> name, tx |-> id, position |-> None, heading |-> 0,
   next_gate_index |-> 0, finish_time |-> None, path_history |-> << >>,
   last_sample_instant |-> None, saved |-> << >>]

\* cd_seen is a history field: for each player who has been a member without
\* interruption since the countdown began, the RaceCountdown seconds it got.
Race_new(course, creator_id) ==
  [course |-> course, creator_id |-> creator_id, players |-> << >>,
   max_players |-> max_players, race_start_time |-> None, race_ended |-> FALSE,
   cd_seen |-> << >>]

race_started(race) == is_some(race.race_start_time)

Members(race) == DOMAIN race.players

Put(f, k, v) == [x \in (DOMAIN f) \cup {k} |-> IF x = k THEN v ELSE f[x]]
Del(f, k) == [x \in (DOMAIN f) \ {k} |-> f[x]]

\* add_player with the capacity test off by one.
add_player_cap_off_by_one(race, player) ==
  IF race_started(race)
    THEN [ok |-> FALSE, err |-> "Race has already started", race |-> race]
  ELSE IF Cardinality(Members(race)) > race.max_players
    THEN [ok |-> FALSE, err |-> "Race is full", race |-> race]
  ELSE [ok |-> TRUE, err |-> "",
        race |-> [race EXCEPT !.players = Put(@, player.id, player)]]

add_player(race, player) ==
  IF race_started(race)
    THEN [ok |-> FALSE, err |-> "Race has already started", race |-> race]
  ELSE IF Cardinality(Members(race)) >= race.max_players
    THEN [ok |-> FALSE, err |-> "Race is full", race |-> race]
  ELSE [ok |-> TRUE, err |-> "",
        race |-> [race EXCEPT !.players = Put(@, player.id, player)]]

remove_player(race, player_id) ==
  [race EXCEPT !.players = Del(@, player_id),
               !.cd_seen = Del(@, player_id)]

\* chrono's Duration::num_minutes: whole minutes, rounded towards zero.
num_minutes(ms) ==
  IF ms >= 0 THEN ms \div MS_PER_MINUTE ELSE -((-ms) \div MS_PER_MINUTE)

is_expired_empty_or_old(race, last_activity, t) ==
  Members(race) = {} \/ num_minutes(t - last_activity) >= EXPIRY_MINUTES

is_expired(race, last_activity, t) ==
  Members(race) = {} /\ num_minutes(t - last_activity) >= EXPIRY_MINUTES

broadcast(race, message, exclude) ==
  [p \in AllPids |->
     IF \E id \in Members(race) : id \notin exclude /\ race.players[id].tx = p
       THEN <<message>> ELSE << >>]

broadcast_all(race, message) == broadcast(race, message, {})

get_player_infos(race) ==
  {[id |-> race.players[p].id, name |-> race.players[p].name] : p \in Members(race)}

\* record_gate_crossing without the test of the order of the gates.
Race_record_gate_crossing_any_order(race, player_id, gate_index, course_time) ==
  LET num_gates == Len(race.course.gates) IN
  IF player_id \notin Members(race)
    THEN [race |-> race, finished |-> None]
  ELSE IF gate_index = num_gates
    THEN [race |-> [race EXCEPT
                      ![ "players" ][player_id].next_gate_index = gate_index + 1,
                      ![ "players" ][player_id].finish_time = Some(course_time),
                      ![ "players" ][player_id].path_history = << >>],
          finished |-> Some([player_id |-> race.players[player_id].id,
                             player_name |-> race.players[player_id].name,
                             finish_time |-> course_time,
                             path_history |-> race.players[player_id].path_history])]
  ELSE [race |-> [race EXCEPT
                    ![ "players" ][player_id].next_gate_index = gate_index + 1],
        finished |-> None]

Race_record_gate_crossing(race, player_id, gate_index, course_time) ==
  LET num_gates == Len(race.course.gates) IN
  IF player_id \notin Members(race)
    THEN [race |-> race, finished |-> None]
  ELSE IF gate_index # race.players[player_id].next_gate_index
    THEN [race |-> race, finished |-> None]
  ELSE IF gate_index = num_gates
    THEN [race |-> [race EXCEPT
                      ![ "players" ][player_id].next_gate_index = gate_index + 1,
                      ![ "players" ][player_id].finish_time = Some(course_time),
                      ![ "players" ][player_id].path_history = << >>],
          finished |-> Some([player_id |-> race.players[player_id].id,
                             player_name |-> race.players[player_id].name,
                             finish_time |-> course_time,
                             path_history |-> race.players[player_id].path_history])]
  ELSE [race |-> [race EXCEPT
                    ![ "players" ][player_id].next_gate_index = gate_index + 1],
        finished |-> None]

\* ------------------------------------------------------------- leaderboard
\* The orders in which an iteration over a HashMap can visit the keys S.
Orders(S) ==
  {o \in [1 .. Cardinality(S) -> S] : \A i, j \in DOMAIN o : o[i] = o[j] => i = j}

\* Stands for the great-circle distance: on the few degrees the positions of
\* the model span, it orders pairs of points as the square of the planar
\* distance does.
haversine_distance(lat1, lng1, lat2, lng2) ==
  (lat2 - lat1) * (lat2 - lat1) + (lng2 - lng1) * (lng2 - lng1)

\* The closure of filter_map (lines 237-262): None for a player without a
\* position.
leaderboard_entry(race, player) ==
  IF player.position = None THEN None
  ELSE LET lng == unwrap(player.position)[1]
           lat == unwrap(player.position)[2]
           num_gates == Len(race.course.gates)
           center == IF player.next_gate_index < num_gates
                       THEN race.course.gates[player.next_gate_index + 1]
                       ELSE race.course.finish_line
           distance == haversine_distance(lat, lng, center[2], center[1]) IN
       Some([player_id |-> player.id, player_name |-> player.name,
             next_gate_index |-> player.next_gate_index,
             distance_to_next_gate |->
               IF is_some(player.finish_time) THEN 0 ELSE distance,
             finish_time |-> player.finish_time])

\* The comparator of sort_by with racing players by ascending gate index.
compare_entries_fewer_gates_first(a, b) ==
  IF is_some(a.finish_time) /\ is_some(b.finish_time)
    THEN (IF unwrap(a.finish_time) < unwrap(b.finish_time) THEN -1
          ELSE IF unwrap(a.finish_time) > unwrap(b.finish_time) THEN 1 ELSE 0)
  ELSE IF is_some(a.finish_time) THEN -1
  ELSE IF is_some(b.finish_time) THEN 1
  ELSE IF a.next_gate_index < b.next_gate_index THEN -1
  ELSE IF a.next_gate_index > b.next_gate_index THEN 1
  ELSE IF a.distance_to_next_gate < b.distance_to_next_gate THEN -1
  ELSE IF a.distance_to_next_gate > b.distance_to_next_gate THEN 1
  ELSE 0

\* The comparator of sort_by (lines 266-280): -1 Less, 0 Equal, 1 Greater.
compare_entries(a, b) ==
  IF is_some(a.finish_time) /\ is_some(b.finish_time)
    THEN (IF unwrap(a.finish_time) < unwrap(b.finish_time) THEN -1
          ELSE IF unwrap(a.finish_time) > unwrap(b.finish_time) THEN 1 ELSE 0)
  ELSE IF is_some(a.finish_time) THEN -1
  ELSE IF is_some(b.finish_time) THEN 1
  ELSE IF b.next_gate_index < a.next_gate_index THEN -1
  ELSE IF b.next_gate_index > a.next_gate_index THEN 1
  ELSE IF a.distance_to_next_gate < b.distance_to_next_gate THEN -1
  ELSE IF a.distance_to_next_gate > b.distance_to_next_gate THEN 1
  ELSE 0

\* sort_by is a stable sort: e goes behind the entries that are not Greater.
RECURSIVE insert_sorted(_, _)
insert_sorted(sorted, e) ==
  IF sorted = << >> THEN <<e>>
  ELSE IF compare_entries(Head(sorted), e) > 0 THEN <<e>> \o sorted
  ELSE <<Head(sorted)>> \o insert_sorted(Tail(sorted), e)

RECURSIVE sort_entries(_, _)
sort_entries(sorted, rest) ==
  IF rest = << >> THEN sorted
  ELSE sort_entries(insert_sorted(sorted, Head(rest)), Tail(rest))

RECURSIVE collect_entries(_, _, _)
collect_entries(race, order, i) ==
  IF i > Len(order) THEN << >>
  ELSE leaderboard_entry(race, race.players[order[i]])
         \o collect_entries(race, order, i + 1)

\* order: the order in which players.values() yields the players.
compute_leaderboard(race, order) ==
  sort_entries(<< >>, collect_entries(race, order, 1))

\* ------------------------------------------------- the lock on the race map
\* tokio's RwLock serves requests in FIFO order: a read is not granted while a
\* write request waits, and a write is granted when no guard is held.  Only a
\* guard that is held, or a request that waits, across a suspension is state;
\* every other section takes and drops its guard inside one action.
CanRead == races_lock.waiters = << >>
CanWrite == races_lock.readers = {} /\ races_lock.waiters = << >>

\* ------------------------------------------------------------- connections
\* The periodic tasks that broadcast under a read guard, and the queues when
\* nothing has been pushed yet (see the section on the queues).
CastTasks == {"tick", "board"}

NetIdle ==
  [queue |-> [p \in AllPids |-> << >>],
   wire |-> [p \in AllPids |-> << >>],
   pushed |-> [p \in AllPids |-> << >>],
   casts |-> [t \in CastTasks |-> None],
   emitted |-> 0]

CleanupIdle ==
  [last_activity |-> [r \in RaceIds |-> 0], removed |-> {}, ran |-> FALSE]

ParserIdle ==
  [buffer |-> << >>, input |-> << >>, sent |-> << >>, emitted |-> << >>,
   last |-> [messages |-> << >>, stopped |-> ""]]

TaskIdle ==
  [pc |-> "idle", run |-> 0, todo |-> << >>, attempt |-> 0, total_uploaded |-> 0,
   chunks |-> 0, tried |-> 0, status |-> "", downloads |-> 0, puts |-> 0,
   upserts |-> 0, start |-> << >>]

IngestIdle ==
  [index |-> << >>, grib |-> {}, raster |-> {},
   uploads |-> [opened |-> 0, completed |-> 0, aborted |-> 0],
   faults |-> 0, task |-> TaskIdle]

\* rebuild_from_s3: where it stands, the objects listed and still to visit,
\* its counters, and the keys it has upserted a report for.
RebuildIdle ==
  [pc |-> "idle", truncate |-> FALSE, listed |-> << >>, objects |-> << >>,
   inserted_count |-> 0, skipped_count |-> 0, upserted |-> {}]

\* The table wind_reports, the manifest object of the raster bucket, the
\* Manifest each writer holds in memory once it has loaded one, and the
\* number of upserts and add_report calls made so far; of the last upsert,
\* the report, whether a row of its time was there, and what it returned.
CatalogIdle ==
  [rows |-> << >>, object |-> << >>,
   manifest |-> [w \in 1 .. MaxWriters |-> [loaded |-> FALSE, reports |-> << >>]],
   calls |-> 0, last |-> << >>, rebuild |-> RebuildIdle]

Idle == [pc |-> "idle", race |-> 0, k |-> 0, wake |-> 0, closing |-> FALSE,
         snap |-> None, args |-> << >>]
Closed == [Idle EXCEPT !.pc = "closed"]

Init ==
  /\ races = << >>
  /\ player_races = << >>
  /\ conn = [c \in Conns |-> Idle]
  /\ tick = [pc |-> "sleep", wake |-> SLEEP_MS, race |-> 0]
  /\ races_lock = [readers |-> {}, waiters |-> << >>]
  /\ now = 0
  /\ net = NetIdle
  /\ cleanup = CleanupIdle
  /\ parser = ParserIdle
  /\ ingest = IngestIdle
  /\ catalog = CatalogIdle

\* The state after connection 1 created race 1 on course c0 and the silent
\* connections joined it: a lobby two players short of full.
FullLobby ==
  [Race_new(Courses["c0"], 1) EXCEPT
     !.players = [p \in {1} \cup Fillers |-> NewPlayer(p, "n")]]

InitFull ==
  /\ races = [r \in {1} |-> FullLobby]
  /\ player_races = [p \in {1} \cup Fillers |-> 1]
  /\ conn = [c \in Conns |-> Idle]
  /\ tick = [pc |-> "sleep", wake |-> SLEEP_MS, race |-> 0]
  /\ races_lock = [readers |-> {}, waiters |-> << >>]
  /\ now = 0
  /\ net = NetIdle
  /\ cleanup = CleanupIdle
  /\ parser = ParserIdle
  /\ ingest = IngestIdle
  /\ catalog = CatalogIdle

\* ------------------------------------------------------------- create_race
create_race_out(c, course_key, race_id) ==
  IF course_key \notin DOMAIN Courses
    THEN Reply(c, MsgError("Course not found"))
    ELSE Reply(c, MsgRaceCreated(race_id, c))

create_race(c, course_key, player_name, race_id) ==
  /\ conn[c].pc = "idle"
  /\ IF course_key \notin DOMAIN Courses
       THEN UNCHANGED <<races, player_races>>
       ELSE /\ CanWrite
            /\ race_id \notin DOMAIN races
            /\ races' = Put(races, race_id,
                            add_player(Race_new(Courses[course_key], c),
                                       NewPlayer(c, player_name)).race)
            /\ player_races' = Put(player_races, c, race_id)
  /\ UNCHANGED <<conn, tick, races_lock, now>>

\* --------------------------------------------------------------- join_race
\* What join_race returns to handle_client_message: "" for Ok.
join_race_err(c, race_id, player_name) ==
  IF race_id \notin DOMAIN races THEN "Race not found"
  ELSE add_player(races[race_id], NewPlayer(c, player_name)).err

\* The sends of a JoinRace in the order the handler makes them: each one a
\* message and the queues (tx) it is pushed on.
join_race_sends_reply_first(c, race_id, player_name) ==
  IF race_id \notin DOMAIN races
    THEN << [to |-> {c}, message |-> MsgError("Race not found")] >>
    ELSE LET race == races[race_id]
             res == add_player(race, NewPlayer(c, player_name)) IN
         << [to |-> {c},
             message |-> IF ~res.ok THEN MsgError(res.err)
                         ELSE MsgRaceJoined(race_id, c, race.course.key,
                                            get_player_infos(res.race),
                                            race.creator_id = c)],
            [to |-> {res.race.players[q].tx : q \in Members(res.race)},
             message |-> MsgPlayerJoined(c, player_name)] >>

join_race_sends(c, race_id, player_name) ==
  IF race_id \notin DOMAIN races
    THEN << [to |-> {c}, message |-> MsgError("Race not found")] >>
    ELSE LET race == races[race_id]
             res == add_player(race, NewPlayer(c, player_name)) IN
         << [to |-> {race.players[q].tx : q \in Members(race)},
             message |-> MsgPlayerJoined(c, player_name)],
            [to |-> {c},
             message |-> IF ~res.ok THEN MsgError(res.err)
                         ELSE MsgRaceJoined(race_id, c, race.course.key,
                                            get_player_infos(res.race),
                                            race.creator_id = c)] >>

join_race_out(c, race_id, player_name) ==
  IF race_id \notin DOMAIN races
    THEN Reply(c, MsgError("Race not found"))
    ELSE LET race == races[race_id]
             notify == broadcast_all(race, MsgPlayerJoined(c, player_name))
             res == add_player(race, NewPlayer(c, player_name)) IN
         IF ~res.ok
           THEN Then(notify, Reply(c, MsgError(res.err)))
           ELSE Then(notify,
                     Reply(c, MsgRaceJoined(race_id, c, race.course.key,
                                            get_player_infos(res.race),
                                            race.creator_id = c)))

join_race(c, race_id, player_name) ==
  /\ conn[c].pc = "idle"
  /\ CanWrite
  /\ IF race_id \notin DOMAIN races
       THEN UNCHANGED <<races, player_races>>
       ELSE LET res == add_player(races[race_id], NewPlayer(c, player_name)) IN
            IF ~res.ok
              THEN UNCHANGED <<races, player_races>>
              ELSE /\ races' = [races EXCEPT ![race_id] = res.race]
                   /\ player_races' = Put(player_races, c, race_id)
  /\ UNCHANGED <<conn, tick, races_lock, now>>

\* -------------------------------------------------------------- leave_race
\* leave_race up to the point where it drops player_races; closing tells the
\* LeaveRace command from the cleanup after the socket closed.
leave_race_begin(c, closing) ==
  /\ conn[c].pc = "idle"
  /\ IF c \in DOMAIN player_races
       THEN /\ player_races' = Del(player_races, c)
            /\ conn' = [conn EXCEPT ![c] = [Idle EXCEPT !.pc = "leave",
                                                         !.race = player_races[c],
                                                         !.closing = closing]]
       ELSE /\ UNCHANGED player_races
            /\ conn' = [conn EXCEPT ![c] = IF closing THEN Closed ELSE Idle]
  /\ UNCHANGED <<races, tick, races_lock, now>>

leave_race_out(c) ==
  LET race_id == conn[c].race IN
  IF race_id \in DOMAIN races
       /\ Members(remove_player(races[race_id], c)) # {}
    THEN broadcast_all(remove_player(races[race_id], c), MsgPlayerLeft(c))
    ELSE NoOutput

leave_race_finish(c) ==
  /\ conn[c].pc = "leave"
  /\ CanWrite
  /\ LET race_id == conn[c].race IN
     IF race_id \in DOMAIN races
       THEN LET race == remove_player(races[race_id], c) IN
            IF Members(race) = {}
              THEN races' = Del(races, race_id)
              ELSE races' = [races EXCEPT ![race_id] = race]
       ELSE UNCHANGED races
  /\ conn' = [conn EXCEPT ![c] = IF conn[c].closing THEN Closed ELSE Idle]
  /\ UNCHANGED <<player_races, tick, races_lock, now>>

\* -------------------------------------------------------------- start_race
\* start_race without the test of race_started.
start_race_err_no_started_check(player_id) ==
  IF player_id \notin DOMAIN player_races THEN "Player not in a race"
  ELSE IF player_races[player_id] \notin DOMAIN races THEN "Race not found"
  ELSE IF races[player_races[player_id]].creator_id # player_id
    THEN "Only the race creator can start the race"
  ELSE ""

\* start_race without the test of the creator.
start_race_err_no_creator_check(player_id) ==
  IF player_id \notin DOMAIN player_races THEN "Player not in a race"
  ELSE IF player_races[player_id] \notin DOMAIN races THEN "Race not found"
  ELSE IF race_started(races[player_races[player_id]])
    THEN "Race has already started"
  ELSE ""

\* Lines 634-653: "" when the countdown begins, else the error returned.
start_race_err(player_id) ==
  IF player_id \notin DOMAIN player_races THEN "Player not in a race"
  ELSE IF player_races[player_id] \notin DOMAIN races THEN "Race not found"
  ELSE IF races[player_races[player_id]].creator_id # player_id
    THEN "Only the race creator can start the race"
  ELSE IF race_started(races[player_races[player_id]])
    THEN "Race has already started"
  ELSE ""

start_race_out_silent(c) == NoOutput

start_race_out(c) ==
  IF start_race_err(c) # "" THEN Reply(c, MsgError(start_race_err(c))) ELSE NoOutput

start_race(c) ==
  /\ conn[c].pc = "idle"
  /\ c \in DOMAIN player_races => CanWrite
  /\ IF start_race_err(c) # ""
       THEN UNCHANGED <<races, conn>>
       ELSE /\ conn' = [conn EXCEPT ![c] = [Idle EXCEPT !.pc = "countdown",
                                                         !.race = player_races[c],
                                                         !.k = COUNTDOWN_FROM,
                                                         !.wake = now]]
            /\ races' = [races EXCEPT ![player_races[c]].cd_seen =
                           [p \in Members(races[player_races[c]]) |-> << >>]]
  /\ UNCHANGED <<player_races, tick, races_lock, now>>

\* cd_seen after the broadcast of RaceCountdown{seconds} to the race.
Saw(race, seconds) ==
  LET out == broadcast_all(race, MsgRaceCountdown(seconds)) IN
  [race EXCEPT !.cd_seen =
     [p \in DOMAIN @ |->
        IF p \in Members(race) /\ out[race.players[p].tx] # << >>
          THEN Append(@[p], seconds) ELSE @[p]]]

countdown_step_out(c) ==
  LET race_id == conn[c].race IN
  IF race_id \notin DOMAIN races THEN NoOutput
  ELSE IF Members(races[race_id]) = {} THEN Reply(c, MsgError("All players left"))
  ELSE broadcast_all(races[race_id], MsgRaceCountdown(conn[c].k))

\* One round of the countdown loop: the read section, then the 1 s sleep.
countdown_step(c) ==
  /\ conn[c].pc = "countdown"
  /\ conn[c].k >= 1
  /\ now >= conn[c].wake
  /\ CanRead
  /\ LET race_id == conn[c].race IN
     IF race_id \in DOMAIN races /\ Members(races[race_id]) = {}
       THEN /\ conn' = [conn EXCEPT ![c] = Idle]
            /\ UNCHANGED races
       ELSE /\ conn' = [conn EXCEPT ![c].k = @ - 1, ![c].wake = now + SLEEP_MS]
            /\ races' = IF race_id \in DOMAIN races
                          THEN [races EXCEPT ![race_id] = Saw(@, conn[c].k)]
                          ELSE races
  /\ UNCHANGED <<player_races, tick, races_lock, now>>

\* The last section of start_race forgetting the assignment.
set_start_time_skipped(race, start_time) == race

set_start_time(race, start_time) ==
  [race EXCEPT !.race_start_time = Some(start_time)]

countdown_finish_out(c) ==
  IF conn[c].race \in DOMAIN races
    THEN broadcast_all(races[conn[c].race], MsgRaceCountdown(0))
    ELSE NoOutput

\* Lines 669-679, after the last sleep.
countdown_finish(c) ==
  /\ conn[c].pc = "countdown"
  /\ conn[c].k = 0
  /\ now >= conn[c].wake
  /\ CanWrite
  /\ LET race_id == conn[c].race IN
     races' = IF race_id \in DOMAIN races
                THEN [races EXCEPT ![race_id] = Saw(set_start_time(@, now), 0)]
                ELSE races
  /\ conn' = [conn EXCEPT ![c] = Idle]
  /\ UNCHANGED <<player_races, tick, races_lock, now>>

\* ------------------------------------------------------------ text frames
\* A text frame that does not decode as a ClientMessage: the error is logged,
\* nothing is sent, and the loop takes the next frame.
decode_failure_out(c) == NoOutput

decode_failure(c) ==
  /\ conn[c].pc = "idle"
  /\ UNCHANGED vars

\* -------------------------------------------------------------- list_races
\* What the listing returns (lines 694-710), as a set: the order is that of
\* the HashMap.
list_races_out ==
  {[id |-> r, course_key |-> races[r].course.key,
    max_players |-> races[r].max_players,
    race_started |-> race_started(races[r]),
    creator_id |-> races[r].creator_id,
    players |-> get_player_infos(races[r])] :
     r \in {x \in DOMAIN races : ~race_started(races[x])}}

\* The listing is one read section and writes nothing.
list_races ==
  /\ CanRead
  /\ UNCHANGED <<races, player_races, conn, tick, races_lock, now>>

\* ------------------------------------------------------ broadcast_position
\* Lines 533-549: the look-up and the check under the read guard.  TRUE when
\* the handler goes on to the write section.
position_passes(c) ==
  /\ c \in DOMAIN player_races
  /\ player_races[c] \in DOMAIN races
  /\ ~races[player_races[c]].race_ended

PathLen(c) ==
  IF c \in DOMAIN player_races /\ player_races[c] \in DOMAIN races
       /\ c \in Members(races[player_races[c]])
    THEN Len(races[player_races[c]].players[c].path_history)
    ELSE 0

broadcast_position_check(c, lng, lat, heading) ==
  /\ conn[c].pc = "idle"
  /\ PathLen(c) < MaxPath
  /\ c \in DOMAIN player_races => CanRead
  /\ IF position_passes(c)
       THEN conn' = [conn EXCEPT ![c] =
              [Idle EXCEPT !.pc = "position",
                           !.race = player_races[c],
                           !.snap = Some([race_started |->
                                            race_started(races[player_races[c]]),
                                          race_start_time |->
                                            races[player_races[c]].race_start_time]),
                           !.args = <<lng, lat, heading>>]]
       ELSE UNCHANGED conn
  /\ UNCHANGED <<races, player_races, tick, races_lock, now>>

\* The update sampling the path at every PositionUpdate of a started race.
update_player_always_samples(course, player, snap, lng, lat, heading, t) ==
  LET moved == [player EXCEPT !.position = Some(<<lng, lat>>), !.heading = heading]
      elapsed == t - unwrap_or(snap.race_start_time, 0) IN
  IF snap.race_started
    THEN [moved EXCEPT
            !.path_history = Append(@, [race_time |-> race_time(course, elapsed),
                                        lng |-> lng, lat |-> lat,
                                        heading |-> heading]),
            !.last_sample_instant = Some(t)]
    ELSE moved

\* Lines 557-584, on the sender's Player.
update_player(course, player, snap, lng, lat, heading, t) ==
  LET moved == [player EXCEPT !.position = Some(<<lng, lat>>), !.heading = heading]
      should_sample ==
        \/ player.last_sample_instant = None
        \/ t - unwrap(player.last_sample_instant) >= SAMPLE_MS
      elapsed == t - unwrap_or(snap.race_start_time, 0) IN
  IF snap.race_started /\ should_sample
    THEN [moved EXCEPT
            !.path_history = Append(@, [race_time |-> race_time(course, elapsed),
                                        lng |-> lng, lat |-> lat,
                                        heading |-> heading]),
            !.last_sample_instant = Some(t)]
    ELSE moved

broadcast_position_out(c) ==
  IF conn[c].race \in DOMAIN races
    THEN broadcast(races[conn[c].race],
                   MsgPositionUpdate(c, conn[c].args[1], conn[c].args[2],
                                     conn[c].args[3]), {c})
    ELSE NoOutput

\* Lines 551-596: the write section.
broadcast_position_apply(c) ==
  /\ conn[c].pc = "position"
  /\ CanWrite
  /\ LET race_id == conn[c].race IN
     races' = IF race_id \in DOMAIN races /\ c \in Members(races[race_id])
                THEN [races EXCEPT ![race_id].players[c] =
                        update_player(races[race_id].course, @, unwrap(conn[c].snap),
                                      conn[c].args[1], conn[c].args[2],
                                      conn[c].args[3], now)]
                ELSE races
  /\ conn' = [conn EXCEPT ![c] = Idle]
  /\ UNCHANGED <<player_races, tick, races_lock, now>>

\* ---------------------------------------------------- record_gate_crossing
\* Lines 616-630 on the race of the sender: the Race after the crossing, with
\* the save_race_result task, if one is spawned, noted on the Player.
gate_crossing_applied(race, player_id, gate_index, course_time) ==
  LET res == Race_record_gate_crossing(race, player_id, gate_index, course_time) IN
  IF is_some(res.finished)
    THEN [res.race EXCEPT ![ "players" ][player_id].saved =
            Append(@, [course_key |-> race.course.key,
                       race_start_time |-> race.course.start_time,
                       finished |-> unwrap(res.finished)])]
    ELSE res.race

record_gate_crossing(c, gate_index, course_time) ==
  /\ conn[c].pc = "idle"
  /\ c \in DOMAIN player_races => CanWrite
  /\ races' = IF c \in DOMAIN player_races /\ player_races[c] \in DOMAIN races
                THEN [races EXCEPT ![player_races[c]] =
                        gate_crossing_applied(@, c, gate_index, course_time)]
                ELSE races
  /\ UNCHANGED <<player_races, conn, tick, races_lock, now>>

\* ------------------------------------------------- the race time update task
\* The for loop of lines 380-405 from the i-th race of the order on: what it
\* broadcasts, and the race on whose time limit it stops to ask for the write
\* guard (0 when it reaches the end of the map).
RECURSIVE TickLoop(_, _, _)
TickLoop(order, i, out) ==
  IF i > Len(order) THEN [out |-> out, stopped_on |-> 0]
  ELSE LET race == races[order[i]] IN
       IF is_some(race.race_start_time) /\ ~race.race_ended
         THEN LET t == race_time(race.course, now - unwrap(race.race_start_time))
                  out2 == Then(out, broadcast_all(race, MsgSyncRaceTime(t))) IN
              IF t >= max_finish_time(race.course)
                THEN [out |-> out2, stopped_on |-> order[i]]
                ELSE TickLoop(order, i + 1, out2)
         ELSE TickLoop(order, i + 1, out)

tick_run_out(order) == TickLoop(order, 1, NoOutput).out

\* One wake-up of the task.  It keeps its read guard while it iterates, and
\* still holds it when it asks for the write guard at line 392.
tick_run ==
  /\ tick.pc = "sleep"
  /\ now >= tick.wake
  /\ CanRead
  /\ \E order \in Orders(DOMAIN races) :
       LET res == TickLoop(order, 1, NoOutput) IN
       IF res.stopped_on = 0
         THEN /\ tick' = [tick EXCEPT !.wake = now + SLEEP_MS]
              /\ UNCHANGED races_lock
         ELSE /\ tick' = [pc |-> "await_write", wake |-> tick.wake,
                          race |-> res.stopped_on]
              /\ races_lock' = [readers |-> {"tick"}, waiters |-> <<"tick">>]
  /\ UNCHANGED <<races, player_races, conn, now>>

tick_set_ended_out ==
  IF tick.race \in DOMAIN races
    THEN broadcast_all(races[tick.race], MsgRaceEnded("Time limit reached"))
    ELSE NoOutput

\* Lines 392-400, once the write guard is granted.  A write guard is granted
\* when no guard is held, and the task's own read guard lives until the end of
\* the loop body: no reachable state enables this step, and Next leaves it out.
tick_set_ended ==
  /\ tick.pc = "await_write"
  /\ races_lock.readers = {}
  /\ races_lock.waiters # << >> /\ Head(races_lock.waiters) = "tick"
  /\ races' = IF tick.race \in DOMAIN races
                THEN [races EXCEPT ![tick.race].race_ended = TRUE]
                ELSE races
  /\ tick' = [tick EXCEPT !.pc = "returned"]
  /\ races_lock' = [readers |-> {}, waiters |-> << >>]
  /\ UNCHANGED <<player_races, conn, now>>

\* ------------------------------------------------------ the leaderboard task
\* The for loop of lines 417-424: what one wake-up broadcasts.  orders gives,
\* for every race, the order in which its players are visited.
RECURSIVE BoardLoop(_, _, _, _)
BoardLoop(race_order, orders, i, out) ==
  IF i > Len(race_order) THEN out
  ELSE LET race == races[race_order[i]] IN
       IF race_started(race) /\ ~race.race_ended
         THEN BoardLoop(race_order, orders, i + 1,
                Then(out, broadcast_all(race,
                       MsgLeaderboard(compute_leaderboard(race,
                                                          orders[race_order[i]])))))
         ELSE BoardLoop(race_order, orders, i + 1, out)

leaderboard_run_out(race_order, orders) == BoardLoop(race_order, orders, 1, NoOutput)

\* One wake-up of the task, under its read guard.  It writes nothing, and the
\* length of its sleep is not followed.
leaderboard_run ==
  /\ CanRead
  /\ UNCHANGED <<races, player_races, conn, tick, races_lock, now>>

\* ------------------------------------------------- queues and forward tasks
\* net.queue[p]: the messages in the channel of player p; net.wire[p]: those
\* its forward task has written to the socket.  net.casts[t]: the broadcast
\* task t is in the middle of, under its read guard: the message and the
\* queues still to be served.  History: net.pushed[p], all that was ever
\* pushed on the queue of p, and net.emitted, the number of broadcasts begun;
\* a message carries as id the rank of its broadcast.
\* The players of a race in the order its HashMap yields them: one order for
\* all who iterate while the map is not written.
RECURSIVE IterationOrder(_)
IterationOrder(S) ==
  IF S = {} THEN << >>
  ELSE LET m == CHOOSE x \in S : \A y \in S : x <= y IN
       <<m>> \o IterationOrder(S \ {m})

cast_message(task, race) ==
  IF task = "tick"
    THEN MsgSyncRaceTime(race_time(race.course, now - unwrap(race.race_start_time)))
    ELSE MsgLeaderboard(compute_leaderboard(race, IterationOrder(Members(race))))

\* A periodic task wakes up, takes its read guard and reaches the broadcast
\* for race r (line 386 for the tick, line 420 for the leaderboard).
cast_begin(task, r) ==
  /\ net.casts[task] = None
  /\ net.emitted < MaxCasts
  /\ CanRead
  /\ r \in DOMAIN races
  /\ race_started(races[r]) /\ ~races[r].race_ended
  /\ net' = [net EXCEPT
               !.emitted = @ + 1,
               !.casts[task] =
                 Some([id |-> net.emitted + 1,
                       message |-> cast_message(task, races[r]),
                       todo |-> [i \in 1 .. Cardinality(Members(races[r])) |->
                                   races[r].players[
                                     IterationOrder(Members(races[r]))[i]].tx]])]
  /\ UNCHANGED vars

\* One round of the loop of Race::broadcast: tx.send on the next queue; after
\* the last one the task drops its guard.
cast_send(task) ==
  /\ net.casts[task] # None
  /\ LET cast == unwrap(net.casts[task])
         p == Head(cast.todo)
         item == [id |-> cast.id, message |-> cast.message] IN
     net' = [net EXCEPT
               !.queue[p] = Append(@, item),
               !.pushed[p] = Append(@, item),
               !.casts[task] = IF Tail(cast.todo) = << >> THEN None
                               ELSE Some([cast EXCEPT !.todo = Tail(@)])]
  /\ UNCHANGED vars

\* The forward task of p: rx.recv(), then ws_tx.send (lines 1159-1167).
forward(p) ==
  /\ net.queue[p] # << >>
  /\ net' = [net EXCEPT !.wire[p] = Append(@, Head(net.queue[p])),
                        !.queue[p] = Tail(@)]
  /\ UNCHANGED vars

\* -------------------------------------------------------- the cleanup task
\* One pass of the sweep, in its write section.  The fields removed and ran
\* are history: the races the sweep took out of the map, and whether it ran.
cleanup_run ==
  /\ CanWrite
  /\ LET expired == {r \in DOMAIN races :
                       is_expired(races[r], cleanup.last_activity[r], now)} IN
     /\ races' = [r \in DOMAIN races \ expired |-> races[r]]
     /\ cleanup' = [cleanup EXCEPT !.removed = @ \cup expired, !.ran = TRUE]
  /\ UNCHANGED <<player_races, conn, tick, races_lock, now, net>>

\* add_player and remove_player stamp the race they change.
touch(race_id) ==
  cleanup' = [cleanup EXCEPT !.last_activity[race_id] = now]

join_race_touch(c, race_id, player_name) ==
  /\ join_race(c, race_id, player_name)
  /\ IF join_race_err(c, race_id, player_name) = ""
       THEN touch(race_id)
       ELSE UNCHANGED cleanup
  /\ UNCHANGED net

leave_race_touch(c) ==
  /\ leave_race_finish(c)
  /\ IF conn[c].race \in RaceIds
       THEN touch(conn[c].race)
       ELSE UNCHANGED cleanup
  /\ UNCHANGED net

\* ------------------------------------------------- the GRIB2 stream parser
MAGIC == <<71, 82, 73, 66>>        \* b"GRIB"
END_MARKER == <<55, 55, 55, 55>>   \* b"7777"

\* u64::from_be_bytes of the 8 bytes b, every value from 2^30 up being 2^30.
from_be_bytes(b) ==
  IF (\E i \in 1 .. 4 : b[i] # 0) \/ b[5] >= 64
    THEN 2 ^ 30
    ELSE b[5] * (2 ^ 24) + b[6] * (2 ^ 16) + b[7] * (2 ^ 8) + b[8]

\* buffer.windows(4).position(|w| w == b"GRIB"): 0-based, -1 for None.
marker_position(buffer) ==
  LET hits == {i \in 1 .. Len(buffer) - 3 : SubSeq(buffer, i, i + 3) = MAGIC} IN
  IF hits = {} THEN 0 - 1
  ELSE (CHOOSE i \in hits : \A j \in hits : i <= j) - 1

advance(buffer, cnt) == SubSeq(buffer, cnt + 1, Len(buffer))

\* One call: the message if one came out, the buffer it leaves, and the
\* return it took.
try_extract_message(buffer) ==
  LET pos == marker_position(buffer) IN
  IF pos < 0
    THEN [msg |-> None, buffer |-> buffer, took |-> "no marker"]
    ELSE
      LET b1 == advance(buffer, pos) IN
      IF Len(b1) < HEADER_LEN
        THEN [msg |-> None, buffer |-> b1, took |-> "short header"]
        ELSE
          LET msg_len == from_be_bytes(SubSeq(b1, 9, 16)) IN
          IF msg_len > MAX_MSG_LEN
            THEN [msg |-> None, buffer |-> advance(b1, 4), took |-> "oversized"]
          ELSE IF Len(b1) < msg_len
            THEN [msg |-> None, buffer |-> b1, took |-> "incomplete"]
          ELSE
            LET msg == SubSeq(b1, 1, msg_len)
                b2 == advance(b1, msg_len) IN
            IF Len(msg) < 4 \/ SubSeq(msg, Len(msg) - 3, Len(msg)) # END_MARKER
              THEN [msg |-> None, buffer |-> b2, took |-> "corrupt"]
              ELSE [msg |-> Some(msg), buffer |-> b2, took |-> "message"]

\* The loop of feed: it ends at the first call that returns None.
RECURSIVE feed_loop(_, _)
feed_loop(buffer, messages) ==
  LET r == try_extract_message(buffer) IN
  IF r.msg = None
    THEN [buffer |-> r.buffer, messages |-> messages, stopped |-> r.took]
    ELSE feed_loop(r.buffer, Append(messages, unwrap(r.msg)))

feed(buffer, data) == feed_loop(buffer \o data, << >>)

\* The pieces a stream is made of: well-formed messages, and garbage.
be_u32(n) ==
  <<n \div (2 ^ 24), (n \div (2 ^ 16)) % 256, (n \div (2 ^ 8)) % 256, n % 256>>

Header(len_bytes) == MAGIC \o <<0, 0, 0, 2>> \o len_bytes

GribMessage(body) ==
  Header(<<0, 0, 0, 0>> \o be_u32(HEADER_LEN + Len(body) + 4)) \o body \o END_MARKER

Messages == {GribMessage(<< >>), GribMessage(<<1>>)}

Garbage ==
  { <<0>>,                                        \* a stray byte
    <<71, 82>>,                                   \* the start of a marker
    MAGIC,                                        \* a marker and nothing else
    Header(<<0, 0, 0, 0, 64, 0, 0, 0>>),          \* declares 2^30 bytes
    Header(<<0, 0, 0, 0, 0, 0, 0, 0>>),           \* declares 0 bytes
    Header(<<0, 0, 0, 0, 0, 0, 0, 8>>),           \* declares 8 bytes
    Header(<<0, 0, 0, 0, 0, 0, 0, 20>>) \o <<1, 2, 3, 4>> }  \* no end marker

RECURSIVE Flatten(_)
Flatten(pieces) ==
  IF pieces = << >> THEN << >> ELSE Head(pieces) \o Flatten(Tail(pieces))

RECURSIVE OnlyMessages(_)
OnlyMessages(pieces) ==
  IF pieces = << >> THEN << >>
  ELSE IF Head(pieces) \in Messages
    THEN <<Head(pieces)>> \o OnlyMessages(Tail(pieces))
    ELSE OnlyMessages(Tail(pieces))

\* The stream hands over its next n bytes, and feed runs on them.  The
\* fields sent, emitted and last are history: the messages the stream was
\* made of, the results of the calls so far put end to end, and the last
\* call (what it returned, the return that ended its loop).
feed_chunk(n) ==
  /\ n \in 1 .. Len(parser.input)
  /\ LET res == feed(parser.buffer, SubSeq(parser.input, 1, n)) IN
     parser' = [parser EXCEPT
                  !.buffer = res.buffer,
                  !.input = advance(parser.input, n),
                  !.emitted = @ \o res.messages,
                  !.last = [messages |-> res.messages, stopped |-> res.stopped]]
  /\ UNCHANGED <<vars, net, cleanup>>

\* -------------------------------------------------- the wind report index
\* The rows of wind_reports after the INSERT ... ON CONFLICT(time) DO UPDATE
\* of one report, and the number of rows the statement changed.
upsert_wind_report_plain_insert(index, report) ==
  [index |-> Append(index, report), changed |-> 1]

upsert_wind_report(index, report) ==
  LET hit == {i \in DOMAIN index : index[i].time = report.time} IN
  IF hit = {}
    THEN [index |-> Append(index, report), changed |-> 1]
    ELSE [index |-> [i \in DOMAIN index |-> IF i \in hit THEN report ELSE index[i]],
          changed |-> Cardinality(hit)]

report_exists(index, time) == \E i \in DOMAIN index : index[i].time = time

insert_wind_report(index, report) == upsert_wind_report(index, report).index

\* Vec::sort_by_key on the report times: a stable sort.
RECURSIVE sort_by_key(_)
sort_by_key(reports) ==
  IF reports = << >> THEN << >>
  ELSE LET least == CHOOSE i \in DOMAIN reports :
                      \A j \in DOMAIN reports :
                        \/ reports[i].time < reports[j].time
                        \/ reports[i].time = reports[j].time /\ i <= j
           rest == [k \in 1 .. Len(reports) - 1 |->
                      IF k < least THEN reports[k] ELSE reports[k + 1]] IN
       <<reports[least]>> \o sort_by_key(rest)

\* Manifest::add_report: the reports afterwards, and what it returns.
add_report(reports, report) ==
  IF \E i \in DOMAIN reports : reports[i].time = report.time
    THEN [reports |-> reports, added |-> FALSE]
    ELSE [reports |-> sort_by_key(Append(reports, report)), added |-> TRUE]

\* ----------------------------------------------- the keys of the PNG files
\* A path is the sequence of its characters (ASCII here: one byte each).
DigitChars == <<"0", "1", "2", "3", "4", "5", "6", "7", "8", "9">>
is_digit(ch) == \E d \in DOMAIN DigitChars : DigitChars[d] = ch
to_digit(ch) == (CHOOSE d \in DOMAIN DigitChars : DigitChars[d] = ch) - 1

RECURSIVE digits_value(_)
digits_value(s) ==
  IF s = << >> THEN 0
  ELSE 10 * digits_value(SubSeq(s, 1, Len(s) - 1)) + to_digit(s[Len(s)])

\* str::parse::<u32>(): an optional "+", then digits only, at least one.
\* (No string here is long enough to overflow.)
parse_u32(s) ==
  LET body == IF s # << >> /\ s[1] = "+" THEN Tail(s) ELSE s IN
  IF body = << >> \/ \E i \in DOMAIN body : ~is_digit(body[i]) THEN None
  ELSE Some(digits_value(body))

\* str::parse::<i32>(): the same with an optional "-" as well.
parse_i32(s) ==
  IF s # << >> /\ s[1] = "-"
    THEN LET body == Tail(s) IN
         IF body = << >> \/ \E i \in DOMAIN body : ~is_digit(body[i]) THEN None
         ELSE Some(0 - digits_value(body))
    ELSE parse_u32(s)

\* path.split('/')
RECURSIVE split(_)
split(path) ==
  IF \A i \in DOMAIN path : path[i] # "/" THEN <<path>>
  ELSE LET cut == CHOOSE i \in DOMAIN path :
                    path[i] = "/" /\ \A j \in 1 .. i - 1 : path[j] # "/" IN
       <<SubSeq(path, 1, cut - 1)>> \o split(SubSeq(path, cut + 1, Len(path)))

ends_with(path, suffix) ==
  /\ Len(suffix) <= Len(path)
  /\ SubSeq(path, Len(path) - Len(suffix) + 1, Len(path)) = suffix

\* NaiveDate::from_ymd_opt and NaiveDate::and_hms_opt(hour, 0, 0).  A date is
\* <<year, month, day>>, an instant <<year, month, day, hour>>.
is_leap_year(year) ==
  (year % 4 = 0 /\ year % 100 # 0) \/ year % 400 = 0

days_in_month(year, month) ==
  IF month = 2 THEN (IF is_leap_year(year) THEN 29 ELSE 28)
  ELSE IF month \in {4, 6, 9, 11} THEN 30 ELSE 31

from_ymd_opt(year, month, day) ==
  IF month \in 1 .. 12 /\ day >= 1 /\ day <= days_in_month(year, month)
    THEN Some(<<year, month, day>>) ELSE None

and_hms_opt(date, hour) ==
  IF hour < 24 THEN Some(date \o <<hour>>) ELSE None

\* parse_ncar_png_path: Some(report), None, or the panic of a slice
\* parts[2][0..2] or parts[2][2..4] that ends beyond the segment.
NoReport == [kind |-> "None"]
SlicePanic == [kind |-> "panic"]
NCAR == <<"n", "c", "a", "r">>
UV_PNG == <<"/", "u", "v", ".", "p", "n", "g">>

parse_ncar_png_path(path) ==
  LET parts == split(path) IN
  IF Len(parts) # 5 \/ parts[1] # NCAR THEN NoReport
  ELSE LET year == parse_i32(parts[2]) IN
  IF year = None THEN NoReport
  ELSE IF Len(parts[3]) < 2 THEN SlicePanic
  ELSE LET month == parse_u32(SubSeq(parts[3], 1, 2)) IN
  IF month = None THEN NoReport
  ELSE IF Len(parts[3]) < 4 THEN SlicePanic
  ELSE LET day_of_month == parse_u32(SubSeq(parts[3], 3, 4)) IN
  IF day_of_month = None THEN NoReport
  ELSE LET hour == parse_u32(parts[4]) IN
  IF hour = None THEN NoReport
  ELSE LET date == from_ymd_opt(unwrap(year), unwrap(month), unwrap(day_of_month)) IN
  IF date = None THEN NoReport
  ELSE LET target_time == and_hms_opt(unwrap(date), unwrap(hour)) IN
  IF target_time = None THEN NoReport
  ELSE [kind |-> "Some",
        report |-> [time |-> unwrap(target_time),
                    grib_path |-> <<"ncar", unwrap(year), unwrap(month),
                                    unwrap(day_of_month), unwrap(hour), "wind.grib2">>,
                    png_path |-> path,
                    source |-> "ncar"]]

\* ------------------------------------------------------ the wind ingestion
Units == 1 .. MaxUnits

ncar_grib_path(time) == <<"ncar", time, "wind.grib2">>
ncar_raster_path(time) == <<"ncar", time, "uv.png">>

\* What the archive answers to the GET of one attempt.
Statuses == {"connection failed", "404", "500", "403", "200"}

\* The error try_download_wind_data returns on a status, "" when it goes on.
status_error_404_is_client_error(status) ==
  IF status \in {"connection failed", "500"} THEN "Retryable"
  ELSE IF status = "200" THEN ""
  ELSE "NonRetryable"

status_error(status) ==
  IF status = "connection failed" THEN "Retryable"
  ELSE IF status = "404" THEN "NotFound"
  ELSE IF status = "500" THEN "Retryable"
  ELSE IF status # "200" THEN "NonRetryable"
  ELSE ""

\* The unit in hand is done with (Ok): the loop goes to the next one.
next_unit(task) == [task EXCEPT !.pc = "loop", !.todo = Tail(@)]

\* download_wind_data after an attempt that returned Retryable.
retryable(task) ==
  IF task.attempt < MAX_RETRIES
    THEN [task EXCEPT !.pc = "download", !.attempt = @ + 1]
    ELSE [task EXCEPT !.pc = "failed"]

CanFail == ingest.faults < MaxFaults
Fault(failed) == IF failed THEN ingest.faults + 1 ELSE ingest.faults

\* import_grib_range_ncar is called.  The fields run, downloads, puts,
\* upserts and start are history: which import this is, what it did so far,
\* and the index, buckets and sessions it started from.
import_grib_range_ncar ==
  /\ ingest.task.pc \in {"idle", "finished", "failed"}
  /\ ingest.task.run < MaxRuns
  /\ ingest' = [ingest EXCEPT !.task =
       [TaskIdle EXCEPT !.pc = "loop", !.run = ingest.task.run + 1,
                        !.todo = [i \in 1 .. MaxUnits |-> i],
                        !.start = <<ingest.index, ingest.grib, ingest.raster,
                                    ingest.uploads>>]]
  /\ UNCHANGED <<vars, net, cleanup, parser>>

\* What handle_ncar_grib does first with a unit: "skip" when the index has
\* it, "cached" when the get of the grib object succeeded, else "download".
pre_check_without_index(index, time, got) ==
  IF got THEN "cached" ELSE "download"

pre_check(index, time, got) ==
  IF report_exists(index, time) THEN "skip"
  ELSE IF got THEN "cached"
  ELSE "download"

handle_ncar_grib_begin(got) ==
  /\ ingest.task.pc = "loop"
  /\ LET task == ingest.task IN
     IF task.todo = << >>
       THEN /\ got
            /\ ingest' = [ingest EXCEPT !.task.pc = "finished"]
       ELSE LET time == Head(task.todo)
                way == pre_check(ingest.index, time, got) IN
            /\ got => ncar_grib_path(time) \in ingest.grib
            /\ ingest' = [ingest EXCEPT !.task =
                 IF way = "skip" THEN next_unit(task)
                 ELSE [task EXCEPT !.pc = IF way = "cached" THEN "transcode"
                                          ELSE "download",
                                   !.attempt = 0, !.tried = 0, !.status = ""]]
  /\ UNCHANGED <<vars, net, cleanup, parser>>

\* One call of try_download_wind_data up to the opening of the multipart
\* session.  The fields tried and status are history: the calls made for
\* this unit, and the last answer of the archive.
try_download_wind_data_begin(status, opened) ==
  /\ ingest.task.pc = "download"
  /\ (status \notin {"404", "200"} \/ ~opened) => CanFail
  /\ status # "200" => opened
  /\ LET task == [ingest.task EXCEPT !.tried = @ + 1, !.status = status,
                                     !.downloads = @ + 1]
         err == status_error(status) IN
     ingest' =
       IF err = "NotFound" THEN [ingest EXCEPT !.task = next_unit(task)]
       ELSE IF err = "NonRetryable"
         THEN [ingest EXCEPT !.task = [task EXCEPT !.pc = "failed"],
                             !.faults = @ + 1]
       ELSE IF err = "Retryable" \/ ~opened
         THEN [ingest EXCEPT !.task = retryable(task), !.faults = @ + 1]
       ELSE [ingest EXCEPT !.task = [task EXCEPT !.pc = "stream",
                                                !.total_uploaded = 0,
                                                !.chunks = 0],
                           !.uploads.opened = @ + 1]
  /\ UNCHANGED <<vars, net, cleanup, parser>>

\* One chunk of the body: read (or not), parsed, and its wind messages
\* written to the uploader (or not).  On a failure abort() is called, its
\* answer is dropped, and the attempt returns Retryable.  uploads.aborted
\* counts the calls of abort(), whatever the store answers.
stream_chunk(read, wind, written) ==
  /\ ingest.task.pc = "stream"
  /\ ingest.task.chunks < MaxChunks
  /\ (~read \/ ~written) => CanFail
  /\ (~read \/ ~wind) => written
  /\ ~read => wind
  /\ LET task == ingest.task IN
     ingest' =
       IF read /\ written
         THEN [ingest EXCEPT !.task.chunks = @ + 1,
                             !.task.total_uploaded = IF wind THEN @ + 1 ELSE @]
         ELSE [ingest EXCEPT !.task = retryable(task),
                             !.uploads.aborted = @ + 1,
                             !.faults = @ + 1]
  /\ UNCHANGED <<vars, net, cleanup, parser>>

\* The body is over: complete() when something was uploaded, else abort()
\* and Ok(0).  ok is the answer of the object store to that call; an error
\* is returned as Retryable.
stream_end(ok) ==
  /\ ingest.task.pc = "stream"
  /\ ~ok => CanFail
  /\ LET task == ingest.task
         time == Head(task.todo) IN
     ingest' =
       IF task.total_uploaded > 0
         THEN IF ok
           THEN [ingest EXCEPT !.task = [task EXCEPT !.pc = "transcode",
                                                    !.puts = @ + 1],
                               !.uploads.completed = @ + 1,
                               !.grib = @ \cup {ncar_grib_path(time)}]
           ELSE [ingest EXCEPT !.task = retryable(task), !.faults = @ + 1]
         ELSE [ingest EXCEPT !.task = IF ok THEN next_unit(task)
                                      ELSE retryable(task),
                             !.uploads.aborted = @ + 1,
                             !.faults = Fault(~ok)]
  /\ UNCHANGED <<vars, net, cleanup, parser>>

\* The rest of handle_ncar_grib: the grib object is read, transcoded, the
\* PNG is put and the report goes to the index; each step can fail, and the
\* error ends the import.
Steps_index_first == <<"get", "grib_to_uv_png", "insert_wind_report", "put">>

Steps == <<"get", "grib_to_uv_png", "put", "insert_wind_report">>

StepOf(step) == CHOOSE i \in DOMAIN Steps : Steps[i] = step

handle_ncar_grib_finish(done) ==
  /\ ingest.task.pc = "transcode"
  /\ done \in 0 .. Len(Steps)
  /\ done < Len(Steps) => CanFail
  /\ LET task == ingest.task
         time == Head(task.todo)
         report == [time |-> time, grib_path |-> ncar_grib_path(time),
                    png_path |-> ncar_raster_path(time)] IN
     ingest' = [ingest EXCEPT
       !.raster = IF done >= StepOf("put") THEN @ \cup {report.png_path} ELSE @,
       !.index = IF done >= StepOf("insert_wind_report")
                   THEN insert_wind_report(@, report) ELSE @,
       !.faults = Fault(done < Len(Steps)),
       !.task = IF done < Len(Steps)
                  THEN [task EXCEPT !.pc = "failed",
                                    !.puts = IF done >= StepOf("put") THEN @ + 1 ELSE @]
                  ELSE [next_unit(task) EXCEPT !.puts = @ + 1, !.upserts = @ + 1]]
  /\ UNCHANGED <<vars, net, cleanup, parser>>

\* ------------------------------------------------------------------- clock
\* The clock is followed from the first countdown on: before it no section
\* reads the time.
TimeMatters ==
  \/ \E r \in DOMAIN races : Members(races[r]) = {}
  \/ \E c \in Conns : conn[c].pc = "countdown"
  \/ \E r \in DOMAIN races : race_started(races[r])

advance_time ==
  /\ TimeMatters
  /\ now + Quantum <= MaxNow
  /\ now' = now + Quantum
  /\ UNCHANGED <<races, player_races, conn, tick, races_lock>>

\* ---------------------------------------------------------- specifications
FirstRace == CHOOSE r \in RaceIds : \A q \in RaceIds : r <= q


\* JoinRace, LeaveRace (or the socket closing), StartRace and its countdown.
LobbySteps ==
  \/ \E c \in Conns, r \in RaceIds, n \in Names : join_race(c, r, n)
  \/ \E c \in Conns, closing \in BOOLEAN : leave_race_begin(c, closing)
  \/ \E c \in Conns : leave_race_finish(c)
  \/ \E c \in Conns : start_race(c)
  \/ \E c \in Conns : countdown_step(c)
  \/ \E c \in Conns : countdown_finish(c)
  \/ list_races
  \/ \E c \in Conns : decode_failure(c)
  \/ advance_time

GateSteps ==
  \E c \in Conns, g \in GateIndexes, t \in CourseTimes :
    record_gate_crossing(c, g, t)

PositionSteps ==
  \/ \E c \in Conns, lng \in Lngs, lat \in Lats, h \in Headings :
       broadcast_position_check(c, lng, lat, h)
  \/ \E c \in Conns : broadcast_position_apply(c)

\* The whole runtime.
Next ==
  \/ \E c \in Conns, key \in CourseKeys, n \in Names, r \in RaceIds :
       create_race(c, key, n, r)
  \/ LobbySteps
  \/ GateSteps
  \/ PositionSteps
  \/ tick_run
  \/ leaderboard_run

Spec == Init /\ [][Next /\ UNCHANGED <<net, offstage>>]_allvars

\* The clients send CreateRace, JoinRace, LeaveRace and StartRace only, and
\* the race time update task is left aside.
NextLobby ==
  \/ \E c \in Conns, key \in CourseKeys, n \in Names, r \in RaceIds :
       create_race(c, key, n, r)
  \/ LobbySteps

SpecLobby == Init /\ [][NextLobby /\ UNCHANGED <<net, offstage>>]_allvars

\* The same, started from the nearly full lobby.
SpecFull == InitFull /\ [][NextLobby /\ UNCHANGED <<net, offstage>>]_allvars

\* One race at a time (generate_race_id returns FirstRace), no position
\* reports.

NextRace ==
  \/ \E c \in Conns, key \in CourseKeys, n \in Names :
       create_race(c, key, n, FirstRace)
  \/ LobbySteps
  \/ GateSteps
  \/ tick_run
  \/ leaderboard_run

SpecRace == Init /\ [][NextRace /\ UNCHANGED <<net, offstage>>]_allvars

\* A running race with three players, each of them anywhere on the course,
\* with or without a reported position: the players report positions and
\* gates, and the leaderboard task runs.
BoardPlayers == Conns \cup {NumConns + 1}

BoardProgress ==
  {[next_gate_index |-> 0, finish_time |-> None],
   [next_gate_index |-> 1, finish_time |-> None]}
  \cup {[next_gate_index |-> 2, finish_time |-> Some(t)] : t \in CourseTimes}

BoardPlayer(id, position, progress) ==
  [NewPlayer(id, "n") EXCEPT
     !.position = position,
     !.next_gate_index = progress.next_gate_index,
     !.finish_time = progress.finish_time,
     !.saved = IF progress.finish_time = None THEN << >>
               ELSE << [course_key |-> "c0",
                        race_start_time |-> Courses["c0"].start_time,
                        finished |-> [player_id |-> id, player_name |-> "n",
                                      finish_time |-> unwrap(progress.finish_time),
                                      path_history |-> << >>]] >>]

InitBoard ==
  /\ \E positions \in [BoardPlayers ->
                         {None} \cup {Some(<<lng, lat>>) : lng \in Lngs, lat \in Lats}],
        progress \in [BoardPlayers -> BoardProgress] :
       races = [r \in {FirstRace} |->
                  [Race_new(Courses["c0"], 1) EXCEPT
                     !.players = [p \in BoardPlayers |->
                                    BoardPlayer(p, positions[p], progress[p])],
                     !.race_start_time = Some(COUNTDOWN_FROM * SLEEP_MS),
                     !.cd_seen = [p \in BoardPlayers |-> <<3, 2, 1, 0>>]]]
  /\ player_races = [p \in BoardPlayers |-> FirstRace]
  /\ conn = [c \in Conns |-> Idle]
  /\ tick = [pc |-> "sleep", wake |-> (COUNTDOWN_FROM + 1) * SLEEP_MS, race |-> 0]
  /\ races_lock = [readers |-> {}, waiters |-> << >>]
  /\ now = COUNTDOWN_FROM * SLEEP_MS
  /\ net = NetIdle
  /\ cleanup = CleanupIdle
  /\ parser = ParserIdle
  /\ ingest = IngestIdle
  /\ catalog = CatalogIdle

NextBoard ==
  \/ leaderboard_run
  \/ GateSteps
  \/ PositionSteps

SpecBoard == InitBoard /\ [][NextBoard /\ UNCHANGED <<net, offstage>>]_allvars

\* A running race with the connections as its players: the two periodic
\* tasks broadcast, send by send, and the forward tasks empty the queues.
InitQueue ==
  /\ races = [r \in {FirstRace} |->
                [Race_new(Courses["c0"], 1) EXCEPT
                   !.players = [p \in Conns |-> NewPlayer(p, "n")],
                   !.race_start_time = Some(COUNTDOWN_FROM * SLEEP_MS),
                   !.cd_seen = [p \in Conns |-> <<3, 2, 1, 0>>]]]
  /\ player_races = [p \in Conns |-> FirstRace]
  /\ conn = [c \in Conns |-> Idle]
  /\ tick = [pc |-> "sleep", wake |-> (COUNTDOWN_FROM + 1) * SLEEP_MS, race |-> 0]
  /\ races_lock = [readers |-> {}, waiters |-> << >>]
  /\ now = COUNTDOWN_FROM * SLEEP_MS
  /\ net = NetIdle
  /\ cleanup = CleanupIdle
  /\ parser = ParserIdle
  /\ ingest = IngestIdle
  /\ catalog = CatalogIdle

NextQueue ==
  \/ \E task \in CastTasks, r \in RaceIds : cast_begin(task, r)
  \/ \E task \in CastTasks : cast_send(task)
  \/ \E p \in AllPids : forward(p)

SpecQueue == InitQueue /\ [][NextQueue /\ UNCHANGED offstage]_allvars

\* The sweep over races that are empty or not, old or not: every race id
\* holds a lobby that its own connection is in, or that nobody is in, and
\* that last changed one of SweepAges ago.
InitSweep ==
  \E occupied \in SUBSET (RaceIds \cap Conns), age \in [RaceIds -> SweepAges] :
    /\ races = [r \in RaceIds |->
                  [Race_new(Courses["c0"], r) EXCEPT
                     !.players = [p \in {r} \cap occupied |-> NewPlayer(p, "n")]]]
    /\ player_races = [p \in occupied |-> p]
    /\ conn = [c \in Conns |-> Idle]
    /\ tick = [pc |-> "sleep", wake |-> SLEEP_MS, race |-> 0]
    /\ races_lock = [readers |-> {}, waiters |-> << >>]
    /\ now = 0
    /\ net = NetIdle
    /\ cleanup = [CleanupIdle EXCEPT !.last_activity = [r \in RaceIds |-> 0 - age[r]]]
    /\ parser = ParserIdle
    /\ ingest = IngestIdle
    /\ catalog = CatalogIdle

NextSweep ==
  \/ cleanup_run
  \/ \E c \in Conns, r \in RaceIds, n \in Names : join_race_touch(c, r, n)
  \/ \E c \in Conns : leave_race_begin(c, FALSE) /\ UNCHANGED <<net, cleanup>>
  \/ \E c \in Conns : leave_race_touch(c)
  \/ advance_time /\ UNCHANGED <<net, cleanup>>

SpecSweep ==
  InitSweep /\ [][NextSweep /\ UNCHANGED <<parser, ingest, catalog>>]_allvars

\* The parser alone, on every stream of at most MaxPieces pieces, cut into
\* chunks in every way.
StageIdle ==
  /\ races = << >>
  /\ player_races = << >>
  /\ conn = [c \in Conns |-> Idle]
  /\ tick = [pc |-> "sleep", wake |-> SLEEP_MS, race |-> 0]
  /\ races_lock = [readers |-> {}, waiters |-> << >>]
  /\ now = 0
  /\ net = NetIdle
  /\ cleanup = CleanupIdle

Streams ==
  UNION {[1 .. k -> Messages \cup Garbage] : k \in 1 .. MaxPieces}

InitParser ==
  /\ StageIdle
  /\ ingest = IngestIdle
  /\ catalog = CatalogIdle
  /\ \E pieces \in Streams :
       parser = [ParserIdle EXCEPT !.input = Flatten(pieces),
                                   !.sent = OnlyMessages(pieces)]

NextParser == \E n \in 1 .. Len(parser.input) : feed_chunk(n)

SpecParser ==
  InitParser /\ [][NextParser /\ UNCHANGED <<ingest, catalog>>]_allvars

\* The index alone, under several writers.  A row of wind_reports is written
\* by one statement; a manifest is loaded, changed in memory and saved.
Writers == 1 .. MaxWriters

WindReports ==
  {[time |-> time, grib_path |-> <<source, time, "wind.grib2">>,
    png_path |-> <<source, time, "uv.png">>, source |-> source] :
     time \in Units, source \in {"ncar", "gfs"}}

upsert(report) ==
  /\ catalog.calls < MaxUpserts
  /\ catalog' = [catalog EXCEPT
                   !.rows = upsert_wind_report(@, report).index,
                   !.calls = @ + 1,
                   !.last = <<[report |-> report,
                               existed |-> report_exists(catalog.rows, report.time),
                               returned |-> upsert_wind_report(catalog.rows, report).changed > 0]>>]
  /\ UNCHANGED <<vars, net, cleanup, parser, ingest>>

load(w) ==
  /\ catalog' = [catalog EXCEPT
                   !.manifest[w] = [loaded |-> TRUE, reports |-> catalog.object]]
  /\ UNCHANGED <<vars, net, cleanup, parser, ingest>>

manifest_add_report(w, report) ==
  /\ catalog.manifest[w].loaded
  /\ catalog.calls < MaxUpserts
  /\ catalog' = [catalog EXCEPT
                   !.manifest[w].reports = add_report(@, report).reports,
                   !.calls = @ + 1]
  /\ UNCHANGED <<vars, net, cleanup, parser, ingest>>

save(w) ==
  /\ catalog.manifest[w].loaded
  /\ catalog' = [catalog EXCEPT !.object = catalog.manifest[w].reports]
  /\ UNCHANGED <<vars, net, cleanup, parser, ingest>>

InitCatalog ==
  /\ StageIdle
  /\ parser = ParserIdle
  /\ ingest = IngestIdle
  /\ catalog = CatalogIdle

NextCatalog ==
  \/ \E report \in WindReports : upsert(report)
  \/ \E w \in Writers : load(w)
  \/ \E w \in Writers, report \in WindReports : manifest_add_report(w, report)
  \/ \E w \in Writers : save(w)

SpecCatalog == InitCatalog /\ [][NextCatalog]_allvars

\* The rebuild of the index from the listing of the raster bucket.
RECURSIVE join(_)
join(parts) ==
  IF Len(parts) = 1 THEN parts[1]
  ELSE parts[1] \o <<"/">> \o join(Tail(parts))

Y2020 == <<"2", "0", "2", "0">>
D1101 == <<"1", "1", "0", "1">>
UV == Tail(UV_PNG)

\* Objects found under ncar/: two that follow ncar/YYYY/MMDD/H/uv.png, and
\* others that do not.
GoodKeys ==
  {join(<<NCAR, Y2020, D1101, <<"0">>, UV>>),
   join(<<NCAR, Y2020, <<"0", "2", "2", "9">>, <<"6">>, UV>>)}

OtherKeys ==
  {join(<<NCAR, Y2020, D1101, UV>>),
   join(<<NCAR, <<"a", "b", "c", "d">>, D1101, <<"0">>, UV>>),
   join(<<NCAR, <<"2", "0", "2", "1">>, <<"0", "2", "2", "9">>, <<"6">>, UV>>),
   join(<<NCAR, Y2020, <<"1", "3", "0", "1">>, <<"0">>, UV>>),
   join(<<NCAR, Y2020, D1101, <<"2", "5">>, UV>>),
   join(<<NCAR, Y2020, <<"1">>, <<"0">>, UV>>),
   join(<<NCAR, Y2020, <<"1", "1", "0">>, <<"0">>, UV>>),
   join(<<NCAR, Y2020, D1101 \o <<"0", "0">>, <<"0">>, UV>>),
   join(<<NCAR, Y2020, D1101, <<"0">>, <<"w", "i", "n", "d", ".", "p", "n", "g">>>>)}

Keys == GoodKeys \cup OtherKeys

Listings ==
  {l \in UNION {[1 .. n -> Keys] : n \in 0 .. MaxKeys} :
     \A i, j \in DOMAIN l : l[i] = l[j] => i = j}

\* A row from before the rebuild, of a time no listed object has.
StaleRow ==
  [time |-> <<2019, 1, 1, 0>>,
   grib_path |-> <<"ncar", 2019, 1, 1, 0, "wind.grib2">>,
   png_path |-> join(<<NCAR, <<"2", "0", "1", "9">>, <<"0", "1", "0", "1">>, <<"0">>, UV>>),
   source |-> "ncar"]

\* DELETE FROM wind_reports if truncate, then the listing.
rebuild_from_s3_begin(truncate) ==
  /\ catalog.rebuild.pc = "idle"
  /\ catalog' = [catalog EXCEPT
                   !.rows = IF truncate THEN << >> ELSE @,
                   !.rebuild.pc = "loop",
                   !.rebuild.truncate = truncate,
                   !.rebuild.objects = catalog.rebuild.listed]
  /\ UNCHANGED <<vars, net, cleanup, parser, ingest>>

\* One turn of the loop over the objects.
rebuild_from_s3_visit ==
  /\ catalog.rebuild.pc = "loop"
  /\ catalog.rebuild.objects # << >>
  /\ LET path == Head(catalog.rebuild.objects)
         parsed == parse_ncar_png_path(path) IN
     catalog' =
       IF ~ends_with(path, UV_PNG)
         THEN [catalog EXCEPT !.rebuild.objects = Tail(@)]
       ELSE IF parsed.kind = "Some"
         THEN [catalog EXCEPT
                 !.rows = upsert_wind_report(@, parsed.report).index,
                 !.rebuild.objects = Tail(@),
                 !.rebuild.inserted_count = @ + 1,
                 !.rebuild.upserted = @ \cup {path}]
       ELSE IF parsed.kind = "None"
         THEN [catalog EXCEPT
                 !.rebuild.objects = Tail(@),
                 !.rebuild.skipped_count = @ + 1]
       ELSE [catalog EXCEPT !.rebuild.pc = "panicked"]
  /\ UNCHANGED <<vars, net, cleanup, parser, ingest>>

rebuild_from_s3_end ==
  /\ catalog.rebuild.pc = "loop"
  /\ catalog.rebuild.objects = << >>
  /\ catalog' = [catalog EXCEPT !.rebuild.pc = "done"]
  /\ UNCHANGED <<vars, net, cleanup, parser, ingest>>

InitRebuild ==
  /\ StageIdle
  /\ parser = ParserIdle
  /\ ingest = IngestIdle
  /\ \E listed \in Listings, rows \in {<< >>, <<StaleRow>>} :
       catalog = [CatalogIdle EXCEPT !.rows = rows, !.rebuild.listed = listed]

NextRebuild ==
  \/ \E truncate \in BOOLEAN : rebuild_from_s3_begin(truncate)
  \/ rebuild_from_s3_visit
  \/ rebuild_from_s3_end

SpecRebuild == InitRebuild /\ [][NextRebuild]_allvars

\* The ingestion alone.
InitIngest ==
  /\ StageIdle
  /\ parser = ParserIdle
  /\ ingest = IngestIdle
  /\ catalog = CatalogIdle

NextIngest ==
  \/ import_grib_range_ncar
  \/ \E got \in BOOLEAN : handle_ncar_grib_begin(got)
  \/ \E status \in Statuses, opened \in BOOLEAN :
       try_download_wind_data_begin(status, opened)
  \/ \E read, wind, written \in BOOLEAN : stream_chunk(read, wind, written)
  \/ \E ok \in BOOLEAN : stream_end(ok)
  \/ \E done \in 0 .. Len(Steps) : handle_ncar_grib_finish(done)

SpecIngest == InitIngest /\ [][NextIngest /\ UNCHANGED catalog]_allvars

\* One race at a time, no gate crossings.
NextPosition ==
  \/ \E c \in Conns, key \in CourseKeys, n \in Names :
       create_race(c, key, n, FirstRace)
  \/ LobbySteps
  \/ PositionSteps
  \/ tick_run
  \/ leaderboard_run

SpecPosition == Init /\ [][NextPosition /\ UNCHANGED <<net, offstage>>]_allvars

\* The store under all that writes it: create, join, leave, the countdown
\* and the sweep.  StartRace comes from connection 1 only.
create_race_touch(c, course_key, player_name, race_id) ==
  /\ create_race(c, course_key, player_name, race_id)
  /\ IF course_key \in DOMAIN Courses
       THEN touch(race_id)
       ELSE UNCHANGED cleanup
  /\ UNCHANGED net

NextStore ==
  \/ NextSweep
  \/ \E c \in Conns, key \in CourseKeys, n \in Names, r \in RaceIds :
       create_race_touch(c, key, n, r)
  \/ start_race(1) /\ UNCHANGED <<net, cleanup>>
  \/ countdown_step(1) /\ UNCHANGED <<net, cleanup>>
  \/ countdown_finish(1) /\ UNCHANGED <<net, cleanup>>

\* The races of InitSweep that were last changed a minute ago.
InitStore ==
  /\ InitSweep
  /\ \A r \in RaceIds : cleanup.last_activity[r] = 0 - 60000

SpecStore ==
  InitStore /\ [][NextStore /\ UNCHANGED <<parser, ingest, catalog>>]_allvars

\* Two races under way, each with one player, started at instants of their
\* own; the two tasks, the clock, and the players leaving.
SyncStarts == {1000, 2000, 3000}

InitSync ==
  /\ \E starts \in [RaceIds -> SyncStarts] :
       /\ races = [r \in RaceIds |->
                     [Race_new(Courses["c0"], r) EXCEPT
                        !.players = [p \in {r} |-> NewPlayer(p, "n")],
                        !.race_start_time = Some(starts[r]),
                        !.cd_seen = [p \in {r} |-> <<3, 2, 1, 0>>]]]
       /\ now = CHOOSE t \in SyncStarts :
                   /\ \A r \in RaceIds : starts[r] <= t
                   /\ \E r \in RaceIds : starts[r] = t
       /\ tick = [pc |-> "sleep", wake |-> now, race |-> 0]
  /\ player_races = [p \in RaceIds |-> p]
  /\ conn = [c \in Conns |-> Idle]
  /\ races_lock = [readers |-> {}, waiters |-> << >>]
  /\ net = NetIdle
  /\ cleanup = CleanupIdle
  /\ parser = ParserIdle
  /\ ingest = IngestIdle
  /\ catalog = CatalogIdle

NextSync ==
  \/ tick_run
  \/ leaderboard_run
  \/ advance_time
  \/ \E c \in Conns, closing \in BOOLEAN : leave_race_begin(c, closing)
  \/ \E c \in Conns : leave_race_finish(c)

SpecSync == InitSync /\ [][NextSync /\ UNCHANGED <<net, offstage>>]_allvars

\* ------------------------------------------------------------------ claims
Full(race) == Cardinality(Members(race)) >= max_players

InCountdown(r) == \E c \in Conns : conn[c].pc = "countdown" /\ conn[c].race = r

\* C2: from the moment the creator's StartRace is accepted, and while the
\* race is Running or Ended, no JoinRace is accepted: no step adds a player
\* to the race.
C2_JoinOnlyInLobby ==
  [][\A r \in DOMAIN races :
       ( /\ \/ InCountdown(r)
            \/ race_started(races[r])
            \/ races[r].race_ended
         /\ r \in DOMAIN races' )
       => Members(races'[r]) \subseteq Members(races[r])]_vars

HasCountdown(out) ==
  \E p \in DOMAIN out : \E i \in DOMAIN out[p] : out[p][i].type = "RaceCountdown"

\* C4: a StartRace from a member who is not the creator of its race, or for
\* a race that has already started, returns an error, broadcasts no
\* RaceCountdown and changes nothing.
C4_OnlyCreatorStarts ==
  \A c \in Conns :
    ( /\ conn[c].pc = "idle"
      /\ c \in DOMAIN player_races
      /\ player_races[c] \in DOMAIN races
      /\ \/ races[player_races[c]].creator_id # c
         \/ race_started(races[player_races[c]]) )
    => /\ start_race_err(c) \in {"Only the race creator can start the race",
                                 "Race has already started"}
       /\ start_race_out(c) = Reply(c, MsgError(start_race_err(c)))
       /\ ~ HasCountdown(start_race_out(c))
       /\ ~ ENABLED (start_race(c) /\ vars' # vars)

\* A started race whose creator and one more member are both at their
\* message loops: a StartRace from either is one of the two refused cases.
C4_Witness ==
  \E r \in DOMAIN races, c, d \in Conns :
    /\ race_started(races[r])
    /\ races[r].creator_id = c /\ d # c
    /\ conn[c].pc = "idle" /\ conn[d].pc = "idle"
    /\ c \in DOMAIN player_races /\ player_races[c] = r
    /\ d \in DOMAIN player_races /\ player_races[d] = r
    /\ start_race_err(d) = "Only the race creator can start the race"
    /\ start_race_err(c) = "Race has already started"

IsPrefix(s, t) == Len(s) <= Len(t) /\ \A i \in 1 .. Len(s) : s[i] = t[i]

LimitFound(r) == tick.pc = "await_write" /\ tick.race = r

\* C6: the tick that finds race_time >= max_finish_time for a Running race
\* completes: it can go on to mark the race Ended and send RaceEnded.  And a
\* race is marked Ended only when race_time >= max_finish_time.
C6_TickEndsRace ==
  /\ \A r \in DOMAIN races :
       LimitFound(r) => ENABLED tick_set_ended
  /\ \A r \in DOMAIN races :
       races[r].race_ended =>
         /\ race_started(races[r])
         /\ race_time(races[r].course, now - unwrap(races[r].race_start_time))
              >= max_finish_time(races[r].course)

C8_GateProgression ==
  \A c \in Conns :
    ( /\ c \in DOMAIN player_races
      /\ player_races[c] \in DOMAIN races
      /\ c \in Members(races[player_races[c]]) )
    => \A g \in GateIndexes, t \in CourseTimes :
         LET race == races[player_races[c]]
             before == race.players[c]
             n == before.next_gate_index
             after_race == gate_crossing_applied(race, c, g, t)
             after == after_race.players[c] IN
         /\ \A q \in Members(race) \ {c} : after_race.players[q] = race.players[q]
         /\ g # n => after_race = race
         /\ g = n =>
              /\ after.next_gate_index = n + 1
              /\ n = Len(race.course.gates) =>
                   /\ after.finish_time = Some(t)
                   /\ Len(after.saved) = Len(before.saved) + 1
                   /\ after.saved[Len(after.saved)].finished.finish_time = t
                   /\ after.saved[Len(after.saved)].finished.path_history
                        = before.path_history
              /\ n # Len(race.course.gates) =>
                   /\ after.finish_time = before.finish_time
                   /\ after.saved = before.saved
         /\ conn[c].pc = "idle" =>
              ~ ENABLED ( /\ record_gate_crossing(c, g, t)
                          /\ races' # [races EXCEPT ![player_races[c]] = after_race] )

\* A running race with a player who crossed the gate and the finish line.
C8_Witness ==
  \E r \in DOMAIN races, c \in Conns :
    /\ race_started(races[r])
    /\ c \in Members(races[r])
    /\ races[r].players[c].next_gate_index = Len(races[r].course.gates) + 1
    /\ races[r].players[c].finish_time = Some(200)
    /\ Len(races[r].players[c].saved) = 1

\* C9: every player's next_gate_index lies in [0, |gates| + 1], and it is
\* |gates| + 1 exactly when the player's finish_time is set.
C9_GateIndexRange ==
  \A r \in DOMAIN races :
    \A p \in Members(races[r]) :
      /\ races[r].players[p].next_gate_index \in 0 .. (Len(races[r].course.gates) + 1)
      /\ races[r].players[p].next_gate_index = Len(races[r].course.gates) + 1
           <=> is_some(races[r].players[p].finish_time)

\* C10: while a race is not Running (race_start_time unset, or the race
\* Ended) no step raises a player's next_gate_index, sets a finish_time or
\* starts a persistence.
C10_OnlyWhileRunning ==
  [][\A r \in DOMAIN races :
       ( /\ ~ race_started(races[r]) \/ races[r].race_ended
         /\ r \in DOMAIN races' )
       => \A p \in Members(races[r]) \cap Members(races'[r]) :
            /\ races'[r].players[p].next_gate_index
                 <= races[r].players[p].next_gate_index
            /\ \/ races'[r].players[p].finish_time = races[r].players[p].finish_time
               \/ races'[r].players[p].finish_time = None
            /\ Len(races'[r].players[p].saved) <= Len(races[r].players[p].saved)]_vars

\* The races that have player p in their player set.
RacesOf(p) == {r \in DOMAIN races : p \in Members(races[r])}

\* C11: a player id is in the player set of at most one race.
C11_OneRacePerPlayer ==
  \A p \in AllPids : Cardinality(RacesOf(p)) <= 1

\* C12: once the cleanup of a closed connection has run leave_race to its
\* end, its player is a member of no race in the store, and no race in the
\* store is without members.
C12_ClosedPlayerIsGone ==
  /\ \A c \in Conns : conn[c].pc = "closed" => RacesOf(c) = {}
  /\ \A r \in DOMAIN races : Members(races[r]) # {}

\* The messages of a sequence of sends that go to queue p, in order.
RECURSIVE SentTo(_, _)
SentTo(sends, p) ==
  IF sends = << >> THEN << >>
  ELSE (IF p \in Head(sends).to THEN <<Head(sends).message>> ELSE << >>)
         \o SentTo(Tail(sends), p)

\* C13: an accepted JoinRace of player c pushes PlayerJoined{c} on the queue
\* of every prior member before it pushes RaceJoined on the queue of c, and
\* the roster of that RaceJoined has c and every prior member.
C13_JoinedAfterNotice ==
  \A c \in Conns, r \in DOMAIN races, n \in Names :
    (conn[c].pc = "idle" /\ join_race_err(c, r, n) = "") =>
      LET sends == join_race_sends(c, r, n)
          prior == Members(races[r]) IN
      /\ \E i, j \in DOMAIN sends :
           /\ i < j
           /\ sends[i].message = MsgPlayerJoined(c, n)
           /\ prior \subseteq sends[i].to
           /\ sends[j].message.type = "RaceJoined"
           /\ sends[j].to = {c}
           /\ [id |-> c, name |-> n] \in sends[j].message.players
           /\ \A q \in prior \ {c} :
                [id |-> q, name |-> races[r].players[q].name]
                  \in sends[j].message.players
           /\ \A k \in DOMAIN sends :
                sends[k].message.type = "RaceJoined" => k = j
      /\ \A p \in AllPids : join_race_out(c, r, n)[p] = SentTo(sends, p)

\* A lobby with a member, where a JoinRace of another connection is about
\* to be accepted.
C13_Witness ==
  \E c \in Conns, r \in DOMAIN races :
    /\ conn[c].pc = "idle"
    /\ Members(races[r]) \ {c} # {}
    /\ c \notin Members(races[r])
    /\ join_race_err(c, r, "n") = ""

\* The leaderboards the task can compute for the race in this state.
Leaderboards(race) == {compute_leaderboard(race, o) : o \in Orders(Members(race))}

\* What a racing player's entry must carry as its distance.
DistanceToNext(race, player) ==
  LET center == IF player.next_gate_index < Len(race.course.gates)
                  THEN race.course.gates[player.next_gate_index + 1]
                  ELSE race.course.finish_line IN
  haversine_distance(unwrap(player.position)[2], unwrap(player.position)[1],
                     center[2], center[1])

\* C15: in every computed leaderboard the finished players come before the
\* racing ones; the finished are in ascending finish_time; the racing are in
\* descending next_gate_index and, at equal index, in ascending distance to
\* the center of their next gate, or of the finish line.
C15_LeaderboardOrder ==
  \A r \in DOMAIN races :
    \A lb \in Leaderboards(races[r]) :
      /\ \A i \in DOMAIN lb :
           lb[i].finish_time = None =>
             lb[i].distance_to_next_gate
               = DistanceToNext(races[r], races[r].players[lb[i].player_id])
      /\ \A i, j \in DOMAIN lb :
           i < j =>
             /\ is_some(lb[j].finish_time) => is_some(lb[i].finish_time)
             /\ (is_some(lb[i].finish_time) /\ is_some(lb[j].finish_time)) =>
                  unwrap(lb[i].finish_time) <= unwrap(lb[j].finish_time)
             /\ (lb[i].finish_time = None /\ lb[j].finish_time = None) =>
                  /\ lb[i].next_gate_index >= lb[j].next_gate_index
                  /\ lb[i].next_gate_index = lb[j].next_gate_index =>
                       lb[i].distance_to_next_gate <= lb[j].distance_to_next_gate

\* A leaderboard of three: one finished, then two racing players at
\* different gates.
C15_Witness ==
  \E r \in DOMAIN races :
    \E lb \in Leaderboards(races[r]) :
      /\ Len(lb) = 3
      /\ is_some(lb[1].finish_time)
      /\ lb[2].finish_time = None /\ lb[3].finish_time = None
      /\ lb[2].next_gate_index > lb[3].next_gate_index

\* C16: every finished member of a running race is in every leaderboard
\* computed for it.
C16_FinishedStayListed ==
  \A r \in DOMAIN races :
    (race_started(races[r]) /\ ~races[r].race_ended) =>
      \A lb \in Leaderboards(races[r]) :
        \A p \in Members(races[r]) :
          is_some(races[r].players[p].finish_time) =>
            \E i \in DOMAIN lb : lb[i].player_id = p

\* The wall clock at which a PathPoint of the race was taken.
SampledAt(race, point) ==
  (point.race_time - race.course.start_time) \div race.course.time_factor
    + unwrap(race.race_start_time)

\* C17: a path has points only in a started race, none taken before the
\* start; the points of one player are in the order they were taken, the
\* j-th at least (j - i) * 100 ms after the i-th, so that an interval of
\* length T holds at most T / 100 ms + 1 of them; and a step adds at most one
\* point, only in a started race and only 100 ms or more after the player's
\* last sample.
C17_SamplingCadence ==
  /\ [] \A r \in DOMAIN races :
          \A p \in Members(races[r]) :
            LET path == races[r].players[p].path_history IN
            /\ path # << >> => race_started(races[r])
            /\ \A i \in DOMAIN path :
                 SampledAt(races[r], path[i]) >= unwrap(races[r].race_start_time)
            /\ \A i, j \in DOMAIN path :
                 i < j => SampledAt(races[r], path[j]) - SampledAt(races[r], path[i])
                            >= (j - i) * 100
  /\ [][\A r \in DOMAIN races :
          r \in DOMAIN races' =>
            \A p \in Members(races[r]) \cap Members(races'[r]) :
              LET before == races[r].players[p]
                  after == races'[r].players[p] IN
              Len(after.path_history) > Len(before.path_history) =>
                /\ Len(after.path_history) = Len(before.path_history) + 1
                /\ race_started(races[r])
                /\ \/ before.last_sample_instant = None
                   \/ now - unwrap(before.last_sample_instant) >= 100]_vars

\* A player with two points on its path, and one with a single point who
\* has since reported a position that was not sampled.
C17_Witness ==
  \E r \in DOMAIN races, p, q \in Conns :
    /\ p \in Members(races[r]) /\ q \in Members(races[r])
    /\ Len(races[r].players[p].path_history) = 2
    /\ Len(races[r].players[q].path_history) = 1
    /\ races[r].players[q].position
         # Some(<<races[r].players[q].path_history[1].lng,
                  races[r].players[q].path_history[1].lat>>)

Listed(r) == \E info \in list_races_out : info.id = r

\* C18: the listing has exactly the races in Lobby: a race is listed if and
\* only if it has no countdown in progress, has not started and has not
\* ended.
C18_ListingIsLobby ==
  \A r \in DOMAIN races :
    Listed(r) <=> ( /\ ~ InCountdown(r)
                    /\ ~ race_started(races[r])
                    /\ ~ races[r].race_ended )

AllFinished(race) ==
  \A p \in Members(race) : is_some(race.players[p].finish_time)

\* C19: a started race all of whose players have finished is Ended.
C19_EndedWhenAllFinished ==
  \A r \in DOMAIN races :
    (race_started(races[r]) /\ AllFinished(races[r])) => races[r].race_ended

\* C20: the countdown is interruptible by emptying its race: while it runs,
\* the leaving of each member, the creator included, is handled, and a
\* countdown whose race has no player left, or is gone, stops without a
\* further RaceCountdown and without setting race_start_time.
C20_CountdownInterruptible ==
  \A c \in Conns :
    conn[c].pc = "countdown" =>
      /\ ENABLED leave_race_begin(c, TRUE)
      /\ ( \/ conn[c].race \notin DOMAIN races
           \/ Members(races[conn[c].race]) = {} )
         => ~ ENABLED countdown_step(c) /\ ~ ENABLED countdown_finish(c)

\* The place of broadcast b in what the socket of player p has seen (0 when
\* it has not seen it).
SeenAt(p, b) ==
  IF \E i \in DOMAIN net.wire[p] : net.wire[p][i].id = b
    THEN CHOOSE i \in DOMAIN net.wire[p] : net.wire[p][i].id = b
    ELSE 0

\* C14: what the socket of a player has seen is, in order and without a
\* repeat, what was pushed on its queue, and two players who have both seen
\* two broadcasts have seen them in the same order (the order in which they
\* were emitted, whichever that is).
C14_PerRecipientOrder ==
  /\ \A p \in AllPids :
       /\ net.wire[p] \o net.queue[p] = net.pushed[p]
       /\ \A i, j \in DOMAIN net.wire[p] :
            i # j => net.wire[p][i].id # net.wire[p][j].id
  /\ \A p, q \in AllPids : \A a, b \in 1..net.emitted :
       (SeenAt(p, a) > 0 /\ SeenAt(p, b) > 0 /\ SeenAt(q, a) > 0 /\ SeenAt(q, b) > 0)
         => ((SeenAt(p, a) < SeenAt(p, b)) <=> (SeenAt(q, a) < SeenAt(q, b)))

\* C21: a race that a pass of the sweep takes out of the map has no player
\* and last changed at least one minute before; a race with a player, or
\* that changed less than a minute ago, stays.
C21_SweepOnlyExpired ==
  [][cleanup_run =>
       \A r \in DOMAIN races :
         r \notin DOMAIN races' =>
           /\ Members(races[r]) = {}
           /\ now - cleanup.last_activity[r] >= MS_PER_MINUTE]_allvars

\* The sweep ran, took a race out, and left an old race that has a player.
C21_Witness ==
  /\ cleanup.ran
  /\ cleanup.removed # {}
  /\ \E r \in DOMAIN races :
       Members(races[r]) # {} /\ now - cleanup.last_activity[r] >= MS_PER_MINUTE

Errors(messages) ==
  Cardinality({i \in DOMAIN messages : messages[i].type = "Error"})

\* What a refused command must have sent: one Error to its sender, none to
\* anybody else.
OneErrorTo(c, out) ==
  /\ Errors(out[c]) = 1
  /\ \A q \in AllPids \ {c} : Errors(out[q]) = 0

\* C22: a JoinRace, StartRace or CreateRace that fails sends exactly one
\* Error, to its sender, and leaves the connection waiting for the next
\* command; a frame that does not decode sends nothing and does the same.
C22_OneErrorStaysOpen ==
  \A c \in Conns :
    conn[c].pc = "idle" =>
      /\ \A r \in RaceIds, n \in Names :
           join_race_err(c, r, n) # "" =>
             /\ OneErrorTo(c, join_race_out(c, r, n))
             /\ ~ ENABLED (join_race(c, r, n) /\ conn'[c] # Idle)
      /\ start_race_err(c) # "" =>
           /\ OneErrorTo(c, start_race_out(c))
           /\ ~ ENABLED (start_race(c) /\ conn'[c] # Idle)
      /\ \A key \in CourseKeys \ DOMAIN Courses, n \in Names, r \in RaceIds :
           /\ OneErrorTo(c, create_race_out(c, key, r))
           /\ ~ ENABLED (create_race(c, key, n, r) /\ conn'[c] # Idle)
      /\ decode_failure_out(c) = NoOutput
      /\ ~ ENABLED (decode_failure(c) /\ conn'[c] # Idle)

\* A member of a full race asks to join it again and is told so after the
\* notice of its own arrival, while another connection that created nothing
\* asks for a start.
C22_Witness ==
  \E c, d \in Conns, r \in DOMAIN races :
    /\ conn[c].pc = "idle" /\ conn[d].pc = "idle"
    /\ join_race_err(c, r, "n") = "Race is full"
    /\ Len(join_race_out(c, r, "n")[c]) = 2
    /\ start_race_err(d) \in {"Player not in a race",
                              "Only the race creator can start the race"}

\* C23: whatever the garbage between the messages and wherever the stream is
\* cut, the results of feed put end to end are the first messages of the
\* stream, in order, and all of them once the whole stream has been fed.
C23_Framing ==
  /\ IsPrefix(parser.emitted, parser.sent)
  /\ parser.input = << >> => parser.emitted = parser.sent

\* The messages that calls of try_extract_message would still bring out of a
\* buffer with no byte added to it.
RECURSIVE Stranded(_, _)
Stranded(buffer, messages) ==
  LET r == try_extract_message(buffer) IN
  IF r.msg = None /\ r.buffer = buffer THEN messages
  ELSE Stranded(r.buffer, IF r.msg = None THEN messages
                          ELSE Append(messages, unwrap(r.msg)))

\* C24: a feed that met a marker declaring more than 1 GB has gone past it
\* and emitted every complete message that was behind it in the buffer:
\* none is left waiting for more input.
C24_OversizedDoesNotBlock ==
  parser.last.stopped = "oversized" => Stranded(parser.buffer, << >>) = << >>

\* C25: a feed that threw away a frame without its end marker has emitted
\* every complete message that was behind that frame in the buffer.
C25_CorruptFrameRestarts ==
  parser.last.stopped = "corrupt" => Stranded(parser.buffer, << >>) = << >>

\* C26: a grib object is under its final key only once a session was
\* completed, and every multipart session that an attempt opened has come to
\* its complete() or to its abort() when the attempt is over: none is left.
C26_NoOrphanSession ==
  LET u == ingest.uploads IN
  /\ Cardinality(ingest.grib) <= u.completed
  /\ u.completed + u.aborted <= u.opened
  /\ ingest.task.pc # "stream" => u.opened = u.completed + u.aborted

\* C27: a unit is tried at most 4 times.
C27_RetryBudget == ingest.task.tried <= 4

\* C28: the attempt that gets a 404 opens no multipart session, writes no
\* object and no index entry, and ends the unit with success: the import
\* goes to the next unit and the slot is not tried again.
C28_NotFoundNoEffect ==
  [][(/\ ingest.task.pc = "download"
      /\ ingest'.task.tried = ingest.task.tried + 1
      /\ ingest'.task.status = "404")
     => /\ ingest'.index = ingest.index
        /\ ingest'.grib = ingest.grib
        /\ ingest'.raster = ingest.raster
        /\ ingest'.uploads = ingest.uploads
        /\ ingest'.task.pc = "loop"
        /\ ingest'.task.todo = Tail(ingest.task.todo)]_allvars

\* The first answer for a slot was a 404 and the import has moved on with
\* nothing stored.
C28_Witness ==
  /\ ingest.task.status = "404"
  /\ ingest.task.tried = 1
  /\ ingest.task.pc = "loop"
  /\ ingest.index = << >> /\ ingest.grib = {} /\ ingest.raster = {}
  /\ ingest.uploads.opened = 0

AllIndexedAtStart ==
  /\ ingest.task.run > 0
  /\ \A time \in Units : report_exists(ingest.task.start[1], time)

\* C29: an import that starts with every unit of its range in the index
\* downloads nothing, puts nothing, writes nothing to the index, and leaves
\* the index, the buckets and the sessions as it found them.
C29_RerunIsNoOp ==
  AllIndexedAtStart =>
    /\ ingest.task.downloads = 0
    /\ ingest.task.puts = 0
    /\ ingest.task.upserts = 0
    /\ <<ingest.index, ingest.grib, ingest.raster, ingest.uploads>>
         = ingest.task.start
    /\ ingest.task.pc # "failed"

\* The second import is over and every unit was in the index when it began.
C29_Witness ==
  /\ AllIndexedAtStart
  /\ ingest.task.run = 2
  /\ ingest.task.pc = "finished"

\* C30: after any sequence of upserts, the same time upserted by several
\* writers included, the index holds at most one entry per time value: the
\* table wind_reports, the manifest object, and every manifest in memory.
OnePerTime(reports) ==
  \A i, j \in DOMAIN reports : reports[i].time = reports[j].time => i = j

C30_OnePerTime ==
  /\ OnePerTime(catalog.rows)
  /\ OnePerTime(catalog.object)
  /\ \A w \in Writers : OnePerTime(catalog.manifest[w].reports)

\* A time was upserted again with other paths, and the row holds the later
\* ones; a writer has saved a manifest with a time that another writer has
\* added to its own manifest with other paths.
C30_Witness ==
  /\ catalog.calls > Len(catalog.rows) + 1
  /\ \E i \in DOMAIN catalog.rows : catalog.rows[i].source = "gfs"
  /\ \E w \in Writers, i \in DOMAIN catalog.object :
       \E j \in DOMAIN catalog.manifest[w].reports :
         /\ catalog.manifest[w].reports[j].time = catalog.object[i].time
         /\ catalog.manifest[w].reports[j].source # catalog.object[i].source

\* C31: upsert_wind_report returns true when it inserted a new report for
\* that time and false when a report with that time already existed, and in
\* that case the row holds the new grib_path, png_path and source.
C31_ReturnsInserted ==
  \A i \in DOMAIN catalog.last :
    /\ catalog.last[i].returned = ~catalog.last[i].existed
    /\ \E k \in DOMAIN catalog.rows : catalog.rows[k] = catalog.last[i].report

\* C32: rebuild_from_s3 upserts one report for every listed key of the form
\* ncar/YYYY/MMDD/H/uv.png and skips every other key, whatever its segments
\* are, and goes on: no key aborts the rebuild, and after a truncating
\* rebuild the index has as many rows as the listing has keys of that form.
AllDigits(s) == \A i \in DOMAIN s : is_digit(s[i])

MatchesSchema(path) ==
  LET parts == split(path) IN
  /\ Len(parts) = 5
  /\ parts[1] = NCAR
  /\ Len(parts[2]) = 4 /\ AllDigits(parts[2])
  /\ Len(parts[3]) = 4 /\ AllDigits(parts[3])
  /\ Len(parts[4]) \in 1 .. 2 /\ AllDigits(parts[4])
  /\ parts[5] = UV
  /\ digits_value(SubSeq(parts[3], 1, 2)) \in 1 .. 12
  /\ digits_value(SubSeq(parts[3], 3, 4)) \in
       1 .. days_in_month(digits_value(parts[2]), digits_value(SubSeq(parts[3], 1, 2)))
  /\ digits_value(parts[4]) < 24

ValidListed ==
  {catalog.rebuild.listed[i] : i \in
     {k \in DOMAIN catalog.rebuild.listed : MatchesSchema(catalog.rebuild.listed[k])}}

C32_RebuildSkipsMalformed ==
  /\ catalog.rebuild.pc # "panicked"
  /\ catalog.rebuild.pc = "done" =>
       /\ catalog.rebuild.upserted = ValidListed
       /\ catalog.rebuild.truncate => Len(catalog.rows) = Cardinality(ValidListed)

\* C33: no handler and no periodic task waits for a guard of the race map
\* while it holds a guard that keeps the request from being granted.
C33_NoWaitWhileHolding ==
  \A i \in DOMAIN races_lock.waiters :
    races_lock.waiters[i] \notin races_lock.readers

\* C34: while several races are Running, a race that has reached its time
\* limit does not stop the task for the others: as long as a race is Running
\* and below its own limit, the race time update task is in its loop, asleep
\* until the next tick, and every race it visits at a tick that is Running
\* is sent SyncRaceTime.
C34_OthersKeepSync ==
  \A r \in DOMAIN races :
    ( /\ race_started(races[r]) /\ ~races[r].race_ended
      /\ race_time(races[r].course, now - unwrap(races[r].race_start_time))
           < max_finish_time(races[r].course) )
    => /\ tick.pc = "sleep"
       /\ (now >= tick.wake /\ CanRead) =>
            \A order \in Orders(DOMAIN races) :
              \A p \in Members(races[r]) :
                \E i \in DOMAIN tick_run_out(order)[p] :
                  tick_run_out(order)[p][i].type = "SyncRaceTime"

\* C35: a JoinRace that is refused because the race is full or has started
\* sends nothing to the members of the race (the sender gets its Error and
\* nothing else), and leaves the players of the race and its last_activity
\* as they were.
C35_RefusedJoinInvisible ==
  \A c \in Conns, r \in DOMAIN races, n \in Names :
    (conn[c].pc = "idle" /\ join_race_err(c, r, n) # "") =>
      /\ \A p \in AllPids :
           \A i \in DOMAIN join_race_out(c, r, n)[p] :
             p = c /\ join_race_out(c, r, n)[p][i].type = "Error"
      /\ ~ ENABLED (join_race(c, r, n) /\ races' # races)
      /\ ~ ENABLED (join_race_touch(c, r, n) /\ cleanup' # cleanup)

C38_SavedStartTime ==
  \A r \in DOMAIN races :
    race_started(races[r]) =>
      \A p \in Members(races[r]) :
        \A i \in DOMAIN races[r].players[p].saved :
          races[r].players[p].saved[i].race_start_time
            = unwrap(races[r].race_start_time)

\* C39: at every point of an ingestion, failed attempts and retries
\* included, every entry of the index has its PNG object in the raster
\* bucket and its filtered grib object in the grib bucket.
C39_IndexedHasObjects ==
  \A i \in DOMAIN ingest.index :
    /\ ingest.index[i].png_path \in ingest.raster
    /\ ingest.index[i].grib_path \in ingest.grib

\* The second import has indexed every unit after attempts that failed, and
\* a multipart session was aborted on the way.
C39_Witness ==
  /\ ingest.task.run = 2
  /\ Len(ingest.index) = MaxUnits
  /\ ingest.faults >= 2
  /\ ingest.uploads.aborted >= 1

\* C40: a marker that declares fewer bytes than the 16 of a header, 0
\* included, does not stall the parser: a call of try_extract_message on a
\* buffer that holds such a marker and nothing behind it takes bytes off the
\* buffer, and a well-formed message fed right behind the marker comes out,
\* if not of that feed, of the one after it.
SmallMarkerAhead ==
  /\ Len(parser.buffer) = HEADER_LEN
  /\ marker_position(parser.buffer) = 0
  /\ from_be_bytes(SubSeq(parser.buffer, 9, 16)) < HEADER_LEN

C40_SmallLengthNoStall ==
  SmallMarkerAhead =>
    /\ try_extract_message(parser.buffer).buffer # parser.buffer
    /\ \A m \in Messages :
         LET first == feed(parser.buffer, m)
             second == feed(first.buffer, << >>) IN
         first.messages \o second.messages # << >>

====
